---- MODULE Spec2Model ----
(***************************************************************************)
(* ComfyUI-DiscordSend companion bot: the job orchestrator                 *)
(* (bot/services/job_manager.py over bot/database/repository.py) and the   *)
(* event-channel client (bot/comfyui/websocket.py).                        *)
(*                                                                         *)
(* Two specifications share the module:                                    *)
(*   SpecJobs  the lifecycle of jobs: create_job, the event handlers the   *)
(*             listener runs one after the other, cancel_job, and the      *)
(*             debounced delivery tasks, over a discrete clock;            *)
(*   SpecWS    the websocket client: connect(), disconnect(), the listener *)
(*             task and the reconnect task, one step per stretch of code   *)
(*             between two suspension points of the asyncio coroutines.    *)
(***************************************************************************)
EXTENDS Integers, Naturals, Sequences, FiniteSets, TLC

(* ------------------------------ bounds -------------------------------- *)
\* the clock stops here
MaxTime == 4
\* executed-with-images events applied per job
MaxExecuted == 2
\* clock ticks per second (the resolution of the clock)
TicksPerSecond == 2

(* ------------------------- program constants -------------------------- *)
\* asyncio.sleep(1.0), the debounce window, in seconds
DEBOUNCE_SECONDS == 1
\* max_queue = 3, the default admission ceiling
DEFAULT_MAX_QUEUE == 3

DebounceTicks == DEBOUNCE_SECONDS * TicksPerSecond

\* The prompt ids the backend gives out, in this order; all belong to one user.
Jobs == {1, 2, 3, 4}

\* The prompt id followed through its events, its cancellation and its
\* delivery. Every handler, cancel_job and _schedule_delivery read and write
\* only the row and the delivery task of the prompt id they are given.
Tracked == {1}

\* The prompt ids for which the backend sends execution_start and
\* execution_error while create_job calls are checked; the jobs of the others
\* stay pending.
Started == {1, 2}

\* server_discord_id of a create_job call: none given, one that has a Server
\* row, one that has no Server row
Servers == {"none", "known", "unknown"}

\* the <<value, max>> pairs progress events carry
ProgressInputs == {<<1, 2>>}

(* JobStatus of bot/database/models.py *)
PENDING == "pending"
RUNNING == "running"
COMPLETED == "completed"
FAILED == "failed"
CANCELLED == "cancelled"
ABSENT == "absent"

TerminalStatuses == {COMPLETED, FAILED, CANCELLED}
ActiveStatuses == {PENDING, RUNNING}

\* None for a time, an image list, an error message
NoTime == -1
NoImages == 0
NoError == "none"

VARIABLES
  now,        \* the clock, in ticks
  rows,       \* the jobs table: prompt id -> Job row (status ABSENT: no row)
  cpc,        \* create_job for each prompt id: where the call stands
  hpc,        \* the listener's handler in progress: "idle" or "scheduling"
  hjob,       \* the prompt id of the handler in progress
  hsnap,      \* the Job object update_job_status returned to _on_executed
  kpc,        \* cancel_job for each job: where the call stands
  timers,     \* _delivery_tasks: prompt id -> the delivery task
  burst,      \* history: the executed events applied to each job
  delivered   \* history: the calls of delivery.deliver_job for each job

jobVars == <<now, rows, cpc, hpc, hjob, hsnap, kpc, timers, burst, delivered>>

VARIABLES
  max_queue_per_user,  \* Server.max_queue_per_user of the server that has a row
  cscope,              \* server_discord_id of the last create_job call of each prompt id
  cres                 \* how the last create_job call of each prompt id ended

admVars == <<max_queue_per_user, cscope, cres>>

VARIABLES
  klog,       \* history: the last cancel_job call of each job: the status read, the calls made, the result
  ev,         \* history: the last event a handler was called with: its type, its prompt id
  race        \* history: the create_job calls that were between their queue limit check
              \* and their insert while another call was

jobLogVars == <<klog, ev, race>>

VARIABLES
  pc,                  \* where each coroutine of the websocket client stands
  ws,                  \* self.ws: "none", or the connection, "open" or "closed"
  session,             \* self.session: "none", or the session, "open" or "closed"
  running,             \* self._running
  should_reconnect,    \* self._should_reconnect
  reconnect_attempts,  \* self._reconnect_attempts
  lock_holder,         \* self._state_lock: the task that holds it, or "none"
  lock_q,              \* self._state_lock: the tasks waiting for it, first come first
  backoff,             \* the delay the reconnect task sleeps, in milliseconds
  raced,               \* history: disconnect() was called during a ws_connect, and how that ended
  disc_from,           \* history: what the client was doing when disconnect() was called
  rec_exit,            \* history: how the last reconnect task ended
  outage_try,          \* history: the backoffs slept since the last connection loss
  prev_failed,         \* history: failed attempts of the last outage that ended connected (2: two or more)
  last_exit            \* history: what the last listener to end did in its finally

wsVars == <<pc, ws, session, running, should_reconnect, reconnect_attempts,
            lock_holder, lock_q, backoff, raced, disc_from, rec_exit, outage_try, prev_failed,
            last_exit>>

VARIABLES
  calls,      \* the connect() calls made after the first one
  orphans     \* the listener tasks alive that self._listen_task no longer names

callVars == <<calls, orphans>>

VARIABLES
  callbacks,  \* self._callbacks: event type -> the handlers registered, in order
  lmsg,       \* the message whose handlers the listener loop is running, or NoMsg
  lidx,       \* the place in callbacks[type] of the handler to run next
  hbusy,      \* await callback(data) is under way: the handler has not returned yet
  invoked,    \* history: the handlers invoked for the message under way (or the last
              \* one) whose call is over
  hraised,    \* history: how many handlers raised for that message
  lkind,      \* history: the kind of the last message read
  lcount      \* history: the messages read

listenVars == <<callbacks, lmsg, lidx, hbusy, invoked, hraised, lkind, lcount>>

VARIABLES
  sent,       \* the terminal event of the backend for each prompt id: not emitted ("no"),
              \* on the connection to the client, read by the listener ("received"),
              \* or emitted to no connection or to one closed before the read ("lost")
  cycles      \* history: the reconnections made (connect() of the reconnect loop
              \* ending with a connection)

dropVars == <<sent, cycles>>

vars == <<jobVars, admVars, jobLogVars, wsVars, callVars, listenVars, dropVars>>

\* what a step of the job orchestrator leaves alone, and what a step of the
\* websocket client leaves alone
jobSide == <<jobVars, admVars, jobLogVars, dropVars>>
notJobVars == <<wsVars, callVars, listenVars, dropVars>>
notWsVars == <<jobSide, callVars, listenVars>>

(* A Job row as create_job inserts it: the column defaults of models.Job *)
NewRow ==
  [status |-> PENDING, progress |-> 0, progress_max |-> 0,
   output_images |-> NoImages, error_message |-> NoError,
   started_at |-> NoTime, completed_at |-> NoTime, server_id |-> "none"]

NoRow == [NewRow EXCEPT !.status = ABSENT]

NoTimer == [pc |-> "none", deadline |-> 0, job |-> NoRow]

NoBurst == [n |-> 0, last |-> 0, ok |-> TRUE]

\* the last call of deliver_job: when, with which images, whether the Job
\* object passed equals the persisted row, and the persisted status
NoDelivery == [n |-> 0, at |-> 0, images |-> NoImages, fresh |-> TRUE, status |-> ABSENT]

(* Repository.update_job_status on one row, at time t: the row it commits
   and returns (NoRow for None, when no row has the prompt id) *)
update_job_status(row, status, error_message, output_images, t) ==
  IF row.status = ABSENT THEN NoRow
  ELSE [row EXCEPT
          !.status = status,
          !.started_at = IF status = RUNNING THEN t ELSE @,
          !.completed_at = IF status \in TerminalStatuses THEN t ELSE @,
          !.error_message = IF error_message # NoError THEN error_message ELSE @,
          !.output_images = IF output_images # NoImages THEN output_images ELSE @]

(* Repository.update_job_progress on one row *)
update_job_progress(row, value, max_val) ==
  IF row.status = ABSENT THEN NoRow
  ELSE [row EXCEPT !.progress = value, !.progress_max = max_val]

(* ------------------------------ bounds -------------------------------- *)
\* Server.max_queue_per_user ranges over 1..MaxLimit
MaxLimit == 2

(* Repository.count_user_pending_jobs: the user's rows pending or running,
   those of the server when the call names a server that has a row *)
count_user_pending_jobs(server) ==
  Cardinality({j \in Jobs : /\ rows[j].status \in ActiveStatuses
                            /\ server = "known" => rows[j].server_id = "known"})

\* max_queue of create_job: 3, or the limit of the server when the call names
\* a server that has a row
max_queue(server) == IF server = "known" THEN max_queue_per_user ELSE DEFAULT_MAX_QUEUE

\* the limit test letting one job too many in
QueueLimitReached_Above(count, ceiling) == count > ceiling

\* if current_queue_count >= max_queue: raise ValueError
QueueLimitReached(count, ceiling) == count >= ceiling

NoCancel == [read |-> ABSENT, interrupts |-> 0, deletes |-> 0, result |-> "none"]

\* data.get("data", {}).get("prompt_id") of an event that carries no prompt id
NoPromptId == 0

\* the prompt ids events carry: none, that of the job followed, and one no
\* create_job call of this process has been given
EventIds == {NoPromptId, 1, 2}

NoEvent == [type |-> "none", prompt_id |-> NoPromptId, odd |-> FALSE]

\* n calls have raced; lone: the call between check and insert has met no other yet
NoRace == [n |-> 0, lone |-> FALSE]

InitAdmission ==
  /\ max_queue_per_user \in 1..MaxLimit
  /\ cscope = [j \in Jobs |-> "none"]
  /\ cres = [j \in Jobs |-> "none"]
  /\ klog = [j \in Jobs |-> NoCancel]
  /\ ev = NoEvent
  /\ race = NoRace

InitJobs ==
  /\ now = 0
  /\ rows = [j \in Jobs |-> NoRow]
  /\ cpc = [j \in Jobs |-> "free"]
  /\ hpc = "idle"
  /\ hjob = 0
  /\ hsnap = NoRow
  /\ kpc = [j \in Jobs |-> "idle"]
  /\ timers = [j \in Jobs |-> NoTimer]
  /\ burst = [j \in Jobs |-> NoBurst]
  /\ delivered = [j \in Jobs |-> NoDelivery]

(* the clock *)
Tick ==
  /\ now < MaxTime
  /\ now' = now + 1
  /\ UNCHANGED <<rows, cpc, hpc, hjob, hsnap, kpc, timers, burst, delivered>>

(* ---------------------------- create_job ------------------------------ *)
\* the submission made before the queue limit is tested
CreateCheck_SubmitsFirst(j, server) ==
  /\ cpc[j] = "free"
  /\ \A i \in Jobs : i < j => cpc[i] # "free"
  /\ cpc' = [cpc EXCEPT ![j] = "queue_prompt"]
  /\ cscope' = [cscope EXCEPT ![j] = server]
  /\ cres' = [cres EXCEPT ![j] =
               IF QueueLimitReached(count_user_pending_jobs(server), max_queue(server))
               THEN "rejected" ELSE "none"]
  /\ UNCHANGED <<max_queue_per_user, now, rows, hpc, hjob, hsnap, kpc, timers, burst, delivered>>

\* the queue limit check: the call raises ValueError, or goes on and is
\* suspended in queue_prompt. The call is followed under the prompt id the
\* backend is to give it, the lowest one not given out; when it raises, its
\* server stays on record with the exception.
CreateCheck(j, server) ==
  /\ cpc[j] = "free"
  /\ \A i \in Jobs : i < j => cpc[i] # "free"
  /\ IF QueueLimitReached(count_user_pending_jobs(server), max_queue(server))
     THEN /\ cpc' = cpc
          /\ cscope' = [cscope EXCEPT ![j] = server]
          /\ cres' = [cres EXCEPT ![j] = "rejected"]
     ELSE /\ cpc' = [cpc EXCEPT ![j] = "queue_prompt"]
          /\ cscope' = [cscope EXCEPT ![j] = server]
          /\ cres' = [cres EXCEPT ![j] = "none"]
  /\ UNCHANGED <<max_queue_per_user, now, rows, hpc, hjob, hsnap, kpc, timers, burst, delivered>>

\* a failed submission that goes on to insert the row
CreateSubmit_PersistsAnyway(j) ==
  /\ cpc[j] = "queue_prompt"
  /\ \E ok \in BOOLEAN :
       /\ cpc' = [cpc EXCEPT ![j] = "create_row"]
       /\ cres' = [cres EXCEPT ![j] = IF ok THEN "none" ELSE "failed"]
       /\ cscope' = cscope
  /\ UNCHANGED <<max_queue_per_user, now, rows, hpc, hjob, hsnap, kpc, timers, burst, delivered>>

\* queue_prompt returns the prompt id j (ok), or raises or returns no id: the
\* call raises
CreateSubmit(j) ==
  /\ cpc[j] = "queue_prompt"
  /\ \E ok \in BOOLEAN :
       /\ cpc' = [cpc EXCEPT ![j] = IF ok THEN "create_row" ELSE "free"]
       /\ cres' = [cres EXCEPT ![j] = IF ok THEN "none" ELSE "failed"]
       /\ cscope' = [cscope EXCEPT ![j] = IF ok THEN @ ELSE "none"]
  /\ UNCHANGED <<max_queue_per_user, now, rows, hpc, hjob, hsnap, kpc, timers, burst, delivered>>

\* repo.create_job inserts the row, with the server's id when the server has
\* a row; create_job returns the Job
CreatePersist(j) ==
  /\ cpc[j] = "create_row"
  /\ cpc' = [cpc EXCEPT ![j] = "created"]
  /\ cres' = [cres EXCEPT ![j] = "created"]
  /\ rows' = [rows EXCEPT ![j] =
                [NewRow EXCEPT !.server_id = IF cscope[j] = "known" THEN "known" ELSE "none"]]
  /\ UNCHANGED <<max_queue_per_user, cscope, now, hpc, hjob, hsnap, kpc, timers, burst, delivered>>

\* the backend knows prompt id j and may send events about it
Submitted(j) == cpc[j] \in {"create_row", "created"}

(* -------------------------- event handlers ---------------------------- *)
\* The listener awaits each handler before it reads the next message. j is
\* the prompt id of the event, NoPromptId when it carries none: `if
\* prompt_id:` then skips the update; update_job_status and
\* update_job_progress return None when no row has the prompt id.
OnExecutionStart(j) ==
  /\ hpc = "idle"
  /\ rows' = IF j = NoPromptId THEN rows
             ELSE [rows EXCEPT ![j] =
                     IF @.status = ABSENT THEN @
                     ELSE update_job_status(@, RUNNING, NoError, NoImages, now)]
  /\ UNCHANGED <<now, cpc, hpc, hjob, hsnap, kpc, timers, burst, delivered>>

OnProgress(j) ==
  /\ hpc = "idle"
  /\ \E msg \in ProgressInputs :
       rows' = IF j = NoPromptId THEN rows
               ELSE [rows EXCEPT ![j] =
                       IF @.status = ABSENT THEN @ ELSE update_job_progress(@, msg[1], msg[2])]
  /\ UNCHANGED <<now, cpc, hpc, hjob, hsnap, kpc, timers, burst, delivered>>

OnExecutionError(j) ==
  /\ hpc = "idle"
  /\ rows' = IF j = NoPromptId THEN rows
             ELSE [rows EXCEPT ![j] =
                     IF @.status = ABSENT THEN @
                     ELSE update_job_status(@, FAILED, "error", NoImages, now)]
  /\ UNCHANGED <<now, cpc, hpc, hjob, hsnap, kpc, timers, burst, delivered>>

\* _on_executed scheduling a delivery without the test of the row returned
OnExecuted_SchedulesMiss(j) ==
  /\ hpc = "idle"
  /\ j # NoPromptId => burst[j].n < MaxExecuted
  /\ \E has_images \in BOOLEAN :
       IF has_images /\ j # NoPromptId
       THEN LET job == update_job_status(rows[j], COMPLETED, NoError, burst[j].n + 1, now)
            IN /\ rows' = [rows EXCEPT ![j] = job]
               /\ hpc' = "scheduling"
               /\ hjob' = j
               /\ hsnap' = job
               /\ burst' = [burst EXCEPT ![j] =
                              [n |-> @.n + 1, last |-> now,
                               ok |-> @.ok /\ (@.n = 0 \/ now - @.last < DebounceTicks)]]
       ELSE UNCHANGED <<rows, hpc, hjob, hsnap, burst>>
  /\ UNCHANGED <<now, cpc, kpc, timers, delivered>>

\* _on_executed up to the return of update_job_status. The images of the
\* k-th executed event applied to a job are written k.
OnExecuted(j) ==
  /\ hpc = "idle"
  /\ j # NoPromptId => burst[j].n < MaxExecuted
  /\ \E has_images \in BOOLEAN :
       IF has_images /\ j # NoPromptId /\ rows[j].status # ABSENT
       THEN LET job == update_job_status(rows[j], COMPLETED, NoError, burst[j].n + 1, now)
            IN /\ rows' = [rows EXCEPT ![j] = job]
               /\ hpc' = "scheduling"
               /\ hjob' = j
               /\ hsnap' = job
               /\ burst' = [burst EXCEPT ![j] =
                              [n |-> @.n + 1, last |-> now,
                               ok |-> @.ok /\ (@.n = 0 \/ now - @.last < DebounceTicks)]]
       ELSE UNCHANGED <<rows, hpc, hjob, hsnap, burst>>
  /\ UNCHANGED <<now, cpc, kpc, timers, delivered>>

\* _on_executed from the return of update_job_status: _schedule_delivery
\* cancels the task registered for the prompt id and registers a new one
\* that holds the Job object it was given.
ScheduleDelivery ==
  /\ hpc = "scheduling"
  /\ timers' = [timers EXCEPT ![hjob] =
                  [pc |-> "sleeping", deadline |-> now + DebounceTicks, job |-> hsnap]]
  /\ hpc' = "idle"
  /\ hjob' = 0
  /\ hsnap' = NoRow
  /\ UNCHANGED <<now, rows, cpc, kpc, burst, delivered>>

(* -------------------------- delivery tasks ---------------------------- *)
\* _deliver_delayed: the sleep is over, deliver_job is called with the Job
\* object the task holds.
TimerExpire(j) ==
  /\ timers[j].pc = "sleeping"
  /\ now >= timers[j].deadline
  /\ timers' = [timers EXCEPT ![j].pc = "delivering"]
  /\ delivered' = [delivered EXCEPT ![j] =
                     [n |-> @.n + 1, at |-> now, images |-> timers[j].job.output_images,
                      fresh |-> (timers[j].job = rows[j]), status |-> rows[j].status]]
  /\ UNCHANGED <<now, rows, cpc, hpc, hjob, hsnap, kpc, burst>>

\* deliver_job returns; the done callback drops the task from the registry
DeliverDone(j) ==
  /\ timers[j].pc = "delivering"
  /\ timers' = [timers EXCEPT ![j] = NoTimer]
  /\ UNCHANGED <<now, rows, cpc, hpc, hjob, hsnap, kpc, burst, delivered>>

(* ---------------------------- cancel_job ------------------------------ *)
\* a cancel_job that goes on whatever the status read
CancelRead_IgnoresTerminal(j) ==
  /\ kpc[j] = "idle"
  /\ cpc[j] = "created"
  /\ kpc' = [kpc EXCEPT ![j] =
               IF rows[j].status = RUNNING THEN "interrupt" ELSE "delete_queue_item"]
  /\ UNCHANGED <<now, rows, cpc, hpc, hjob, hsnap, timers, burst, delivered>>

\* a cancel_job that interrupts the backend for a pending job too
CancelRead_InterruptsPending(j) ==
  /\ kpc[j] = "idle"
  /\ cpc[j] = "created"
  /\ kpc' = [kpc EXCEPT ![j] =
               IF rows[j].status \in TerminalStatuses THEN "idle" ELSE "interrupt"]
  /\ UNCHANGED <<now, rows, cpc, hpc, hjob, hsnap, timers, burst, delivered>>

\* get_job_by_id and the checks on the status read
CancelRead(j) ==
  /\ kpc[j] = "idle"
  /\ cpc[j] = "created"
  /\ kpc' = [kpc EXCEPT ![j] =
               IF rows[j].status \in TerminalStatuses THEN "idle"
               ELSE IF rows[j].status = RUNNING THEN "interrupt"
               ELSE "delete_queue_item"]
  /\ UNCHANGED <<now, rows, cpc, hpc, hjob, hsnap, timers, burst, delivered>>

\* client.interrupt() returns (it logs an HTTP error status itself), or its
\* request fails to reach the backend and the error leaves cancel_job
CancelInterrupt(j) ==
  /\ kpc[j] = "interrupt"
  /\ \E ok \in BOOLEAN : kpc' = [kpc EXCEPT ![j] = IF ok THEN "delete_queue_item" ELSE "idle"]
  /\ UNCHANGED <<now, rows, cpc, hpc, hjob, hsnap, timers, burst, delivered>>

\* client.delete_queue_item() returns or raises; either way the call goes on
CancelDelete(j) ==
  /\ kpc[j] = "delete_queue_item"
  /\ kpc' = [kpc EXCEPT ![j] = "update"]
  /\ UNCHANGED <<now, rows, cpc, hpc, hjob, hsnap, timers, burst, delivered>>

\* repo.update_job_status(prompt_id, CANCELLED)
CancelWrite(j) ==
  /\ kpc[j] = "update"
  /\ kpc' = [kpc EXCEPT ![j] = "idle"]
  /\ rows' = [rows EXCEPT ![j] = update_job_status(@, CANCELLED, NoError, NoImages, now)]
  /\ UNCHANGED <<now, cpc, hpc, hjob, hsnap, timers, burst, delivered>>

(* ------------------------- what the callers see ----------------------- *)
\* a handler is called with an event of this type and prompt id; odd tells
\* one call from the next
EventLogged(type, j) ==
  ev' = [type |-> type, prompt_id |-> j, odd |-> ~ev.odd]

\* the create_job calls between their queue limit check and their insert
Window == {i \in Jobs : cpc[i] \in {"queue_prompt", "create_row"}}

(* a step of create_job: a call let through by the check while others are
   between check and insert races them, and so do they if they had not yet;
   the last call to leave is no longer there to be met *)
RaceLogged ==
  race' = IF \E j \in Jobs : cpc[j] = "free" /\ cpc'[j] = "queue_prompt"
          THEN IF Window = {}
               THEN [race EXCEPT !.lone = TRUE]
               ELSE [n |-> race.n + 1 + (IF race.lone THEN 1 ELSE 0), lone |-> FALSE]
          ELSE IF Window' = {} THEN [race EXCEPT !.lone = FALSE]
          ELSE race

\* a step of cancel_job on job j: the status it read, the calls of interrupt
\* and delete_queue_item it has made, and what it gave its caller: "false",
\* "true", or "raised" when an exception left it
CancelLogged(j) ==
  /\ klog' = [klog EXCEPT ![j] =
       IF kpc[j] = "idle"
       THEN [read |-> rows[j].status,
             interrupts |-> IF kpc'[j] = "interrupt" THEN 1 ELSE 0,
             deletes |-> IF kpc'[j] = "delete_queue_item" THEN 1 ELSE 0,
             result |-> IF kpc'[j] = "idle" THEN "false" ELSE "none"]
       ELSE [@ EXCEPT
               !.deletes = IF kpc'[j] = "delete_queue_item" THEN @ + 1 ELSE @,
               !.result = IF kpc'[j] # "idle" THEN "none"
                          ELSE IF kpc[j] = "update" THEN "true" ELSE "raised"]]

(* ======================= the websocket client ========================= *)
(* bot/comfyui/websocket.py. The coroutines are the caller's connect()
   (Bot.setup_hook), the caller's disconnect() (Bot.close), the listener
   task (_listen) and the reconnect task (_handle_disconnect, then
   _reconnect_loop, which calls connect()). A step runs one coroutine from
   one suspension point to the next. *)

(* ------------------------------ bounds -------------------------------- *)
\* the backend refuses at most this many reconnect attempts in a row
MaxAttempts == 7
\* and in a long outage at most this many
MaxOutage == 1024

(* ------------------------- program constants -------------------------- *)
\* INITIAL_BACKOFF = 1.0, seconds
INITIAL_BACKOFF == 1
\* MAX_BACKOFF = 60.0, seconds
MAX_BACKOFF == 60
\* BACKOFF_MULTIPLIER = 2
BACKOFF_MULTIPLIER == 2
\* JITTER_FACTOR = 0.1, in percent
JITTER_PERCENT == 10

\* the values of random.random() tried, in thousandths (it ranges over [0, 1))
RandomSamples == {0, 500, 995}

Min(a, b) == IF a < b THEN a ELSE b

(* INITIAL_BACKOFF is a float and BACKOFF_MULTIPLIER an int: the power is an
   exact int of any size, and the product converts it to a float, which
   raises OverflowError from 2 ** 1024 on (the largest float is below it) *)
FloatMaxExp == 1024

\* what calculate_backoff gives when the product raises
Overflow == -1

\* from this exponent on the power is far above the cap and min() gives the
\* cap; below it the product is computed
Saturated == 16

\* the delay without the cap
nominal_delay_Uncapped(attempts) ==
  INITIAL_BACKOFF * 1000 * BACKOFF_MULTIPLIER ^ Min(attempts, Saturated)

\* delay = min(INITIAL_BACKOFF * BACKOFF_MULTIPLIER ** attempts, MAX_BACKOFF),
\* in milliseconds
nominal_delay(attempts) ==
  IF attempts >= Saturated
  THEN MAX_BACKOFF * 1000
  ELSE Min(INITIAL_BACKOFF * 1000 * BACKOFF_MULTIPLIER ^ attempts, MAX_BACKOFF * 1000)

(* _calculate_backoff for self._reconnect_attempts = attempts and
   random.random() = r / 1000; the result in milliseconds, or Overflow *)
calculate_backoff(attempts, r) ==
  IF attempts >= FloatMaxExp
  THEN Overflow
  ELSE LET delay == nominal_delay(attempts)
           jitter == (delay * JITTER_PERCENT * (2 * r - 1000)) \div 100000
       IN delay + jitter

ConnectTasks == {"caller", "reconnect"}

TaskAlive(p) == p \notin {"none", "idle", "done", "returned", "raised"}

InitWS ==
  /\ pc = [caller |-> "idle", reconnect |-> "none", disconnect |-> "idle", listener |-> "none"]
  /\ ws = "none"
  /\ session = "none"
  /\ running = FALSE
  /\ should_reconnect = TRUE
  /\ reconnect_attempts = 0
  /\ lock_holder = "none"
  /\ lock_q = <<>>
  /\ backoff = 0
  /\ raced = "no"
  /\ disc_from = "none"
  /\ rec_exit = "none"
  /\ outage_try = 0
  /\ prev_failed = 0
  /\ last_exit = "none"

(* _reconnect_loop from the loop test to the call of asyncio.sleep, p being
   pc with the changes the step has made so far. The counter is incremented
   and _calculate_backoff called outside the try statement: its OverflowError
   leaves the loop and _handle_disconnect, and the task is over. *)
LoopHead(p) ==
  IF should_reconnect
  THEN /\ reconnect_attempts' = reconnect_attempts + 1
       /\ outage_try' = outage_try + 1
       /\ \E r \in RandomSamples :
            IF calculate_backoff(reconnect_attempts + 1, r) = Overflow
            THEN /\ backoff' = backoff
                 /\ pc' = [p EXCEPT !["reconnect"] = "done"]
                 /\ rec_exit' = "error"
            ELSE /\ backoff' = calculate_backoff(reconnect_attempts + 1, r)
                 /\ pc' = [p EXCEPT !["reconnect"] = "sleep"]
                 /\ rec_exit' = rec_exit
  ELSE /\ pc' = [p EXCEPT !["reconnect"] = "done"]
       /\ rec_exit' = "stopped"
       /\ UNCHANGED <<reconnect_attempts, backoff, outage_try>>

(* connect() from the state lock taken to the call of ws_connect *)
ConnectLocked(t) ==
  IF ~should_reconnect
  THEN /\ pc' = [pc EXCEPT ![t] = IF t = "caller" THEN "returned" ELSE "done"]
       /\ rec_exit' = IF t = "reconnect" THEN "aborted" ELSE rec_exit
       /\ lock_holder' = "none"
       /\ session' = session
  ELSE /\ pc' = [pc EXCEPT ![t] = "ws_connect"]
       /\ rec_exit' = rec_exit
       /\ lock_holder' = t
       /\ session' = "open"

(* async with self._state_lock in connect(): asyncio.Lock gives the lock at
   once when it is free and nobody waits, else the task queues up *)
ConnectEnter(t) ==
  IF lock_holder = "none" /\ lock_q = <<>>
  THEN /\ ConnectLocked(t)
       /\ lock_q' = lock_q
  ELSE /\ pc' = [pc EXCEPT ![t] = "wait_lock"]
       /\ lock_q' = Append(lock_q, t)
       /\ UNCHANGED <<rec_exit, lock_holder, session>>

\* Bot.setup_hook calls connect()
CallConnect ==
  /\ pc["caller"] = "idle"
  /\ ConnectEnter("caller")
  /\ UNCHANGED <<ws, running, should_reconnect, reconnect_attempts, backoff, raced, disc_from,
                 outage_try, prev_failed, last_exit>>

(* connect() without the reset of self._reconnect_attempts *)
WsConnectOk_NoReset(t) ==
  /\ pc[t] = "ws_connect"
  /\ lock_holder' = "none"
  /\ raced' = IF raced = "pending" THEN "ok" ELSE raced
  /\ disc_from' = disc_from
  /\ IF ~should_reconnect
     THEN /\ ws' = "closed"
          /\ session' = "closed"
          /\ pc' = [pc EXCEPT ![t] = IF t = "caller" THEN "returned" ELSE "done"]
          /\ rec_exit' = IF t = "reconnect" THEN "aborted" ELSE rec_exit
          /\ UNCHANGED <<running, reconnect_attempts, prev_failed>>
     ELSE /\ ws' = "open"
          /\ session' = session
          /\ running' = TRUE
          /\ reconnect_attempts' = reconnect_attempts
          /\ pc' = [pc EXCEPT ![t] = IF t = "caller" THEN "returned" ELSE "done",
                              !["listener"] = "created"]
          /\ rec_exit' = IF t = "reconnect" THEN "connected" ELSE rec_exit
          /\ prev_failed' = IF t = "reconnect" THEN Min(outage_try - 1, 2) ELSE prev_failed
  /\ UNCHANGED <<should_reconnect, lock_q, backoff, outage_try, last_exit>>

(* ws_connect returns a connection: connect() to its end *)
WsConnectOk(t) ==
  /\ pc[t] = "ws_connect"
  /\ lock_holder' = "none"
  /\ raced' = IF raced = "pending" THEN "ok" ELSE raced
  /\ disc_from' = disc_from
  /\ IF ~should_reconnect
     THEN /\ ws' = "closed"
          /\ session' = "closed"
          /\ pc' = [pc EXCEPT ![t] = IF t = "caller" THEN "returned" ELSE "done"]
          /\ rec_exit' = IF t = "reconnect" THEN "aborted" ELSE rec_exit
          /\ UNCHANGED <<running, reconnect_attempts, prev_failed>>
     ELSE /\ ws' = "open"
          /\ session' = session
          /\ running' = TRUE
          /\ reconnect_attempts' = 0
          /\ pc' = [pc EXCEPT ![t] = IF t = "caller" THEN "returned" ELSE "done",
                              !["listener"] = "created"]
          /\ rec_exit' = IF t = "reconnect" THEN "connected" ELSE rec_exit
          /\ prev_failed' = IF t = "reconnect" THEN Min(outage_try - 1, 2) ELSE prev_failed
  /\ UNCHANGED <<should_reconnect, lock_q, backoff, outage_try, last_exit>>

(* the reconnect loop not catching the exception of connect(): the task ends *)
ConnectRaised_Escapes(t) ==
  /\ lock_holder' = "none"
  /\ pc' = [pc EXCEPT ![t] = IF t = "caller" THEN "raised" ELSE "done"]
  /\ rec_exit' = IF t = "reconnect" THEN "error" ELSE rec_exit
  /\ UNCHANGED <<reconnect_attempts, backoff, outage_try>>

(* a failed connect() of the caller handing over to the reconnect task *)
ConnectRaised_Retries(t) ==
  /\ lock_holder' = "none"
  /\ IF t = "caller"
     THEN /\ pc' = [pc EXCEPT ![t] = "raised", !["reconnect"] = "created"]
          /\ UNCHANGED <<reconnect_attempts, backoff, outage_try, rec_exit>>
     ELSE LoopHead(pc)

(* an exception leaves connect(): the lock is released; the caller sees the
   exception, the reconnect loop catches it and goes round *)
ConnectRaised(t) ==
  /\ lock_holder' = "none"
  /\ IF t = "caller"
     THEN /\ pc' = [pc EXCEPT ![t] = "raised"]
          /\ UNCHANGED <<reconnect_attempts, backoff, outage_try, rec_exit>>
     ELSE LoopHead(pc)

\* the backend refuses the connection, fewer than n times in a row to the
\* reconnect task
Refuses(t, n) == t = "reconnect" => reconnect_attempts < n

(* ws_connect raises: the except clause closes the session *)
WsConnectFail(t) ==
  /\ pc[t] = "ws_connect"
  /\ raced' = IF raced = "pending" THEN "fail" ELSE raced
  /\ disc_from' = disc_from
  /\ IF session = "open"
     THEN /\ session' = "closed"
          /\ pc' = [pc EXCEPT ![t] = "fail_close_session"]
          /\ UNCHANGED <<lock_holder, reconnect_attempts, backoff, outage_try, rec_exit>>
     ELSE /\ session' = session
          /\ ConnectRaised(t)
  /\ UNCHANGED <<ws, running, should_reconnect, lock_q, prev_failed, last_exit>>

(* session.close() of the except clause returns; raise *)
ConnectFailClosed(t) ==
  /\ pc[t] = "fail_close_session"
  /\ ConnectRaised(t)
  /\ UNCHANGED <<ws, session, running, should_reconnect, lock_q, raced, disc_from, prev_failed, last_exit>>

(* ------------------------------ _listen ------------------------------- *)
\* the task starts: if not self.ws: return
ListenStart ==
  /\ pc["listener"] = "created"
  /\ pc' = [pc EXCEPT !["listener"] = IF ws = "none" THEN "done" ELSE "running"]
  /\ UNCHANGED <<ws, session, running, should_reconnect, reconnect_attempts, lock_holder,
                 lock_q, backoff, raced, disc_from, rec_exit, outage_try, prev_failed, last_exit>>

\* the backend or the network closes the connection
ChannelDrop ==
  /\ ws = "open"
  /\ ws' = "closed"
  /\ UNCHANGED <<pc, session, running, should_reconnect, reconnect_attempts, lock_holder,
                 lock_q, backoff, raced, disc_from, rec_exit, outage_try, prev_failed, last_exit>>

\* the finally clause starting a reconnect task whatever the flags say
ReconnectWanted_Always == TRUE

\* the test of the finally clause of _listen
ReconnectWanted == running /\ should_reconnect

\* the finally clause of _listen, and the end of the task
ListenFinally ==
  /\ IF ReconnectWanted
     THEN /\ pc' = [pc EXCEPT !["listener"] = "done", !["reconnect"] = "created"]
          /\ last_exit' = "reconnect"
          /\ outage_try' = 0
     ELSE /\ pc' = [pc EXCEPT !["listener"] = "done"]
          /\ last_exit' = "final"
          /\ outage_try' = outage_try
  /\ UNCHANGED <<ws, session, running, should_reconnect, reconnect_attempts, lock_holder,
                 lock_q, backoff, raced, disc_from, rec_exit, prev_failed>>

\* async for ends: the connection is closed
ListenExit ==
  /\ pc["listener"] = "running"
  /\ ws # "open"
  /\ ListenFinally

\* a message of type ERROR (break) or an exception, the connection not yet closed
ListenError ==
  /\ pc["listener"] = "running"
  /\ ws = "open"
  /\ ListenFinally

(* ------------------ _handle_disconnect, _reconnect_loop ---------------- *)
\* the task starts: _running = False, then the first close that applies
HandleDisconnect ==
  /\ pc["reconnect"] = "created"
  /\ running' = FALSE
  /\ IF ws = "open"
     THEN /\ ws' = "closed"
          /\ session' = session
          /\ pc' = [pc EXCEPT !["reconnect"] = "hd_ws_close"]
          /\ UNCHANGED <<reconnect_attempts, backoff, outage_try, rec_exit>>
     ELSE IF session = "open"
     THEN /\ ws' = ws
          /\ session' = "closed"
          /\ pc' = [pc EXCEPT !["reconnect"] = "hd_session_close"]
          /\ UNCHANGED <<reconnect_attempts, backoff, outage_try, rec_exit>>
     ELSE /\ ws' = "none"
          /\ session' = "none"
          /\ LoopHead(pc)
  /\ UNCHANGED <<should_reconnect, lock_holder, lock_q, raced, disc_from, prev_failed, last_exit>>

\* ws.close() returns
HandleDisconnectWsClosed ==
  /\ pc["reconnect"] = "hd_ws_close"
  /\ IF session = "open"
     THEN /\ ws' = ws
          /\ session' = "closed"
          /\ pc' = [pc EXCEPT !["reconnect"] = "hd_session_close"]
          /\ UNCHANGED <<reconnect_attempts, backoff, outage_try, rec_exit>>
     ELSE /\ ws' = "none"
          /\ session' = "none"
          /\ LoopHead(pc)
  /\ UNCHANGED <<running, should_reconnect, lock_holder, lock_q, raced, disc_from, prev_failed, last_exit>>

\* session.close() returns; session = None, ws = None; into _reconnect_loop
HandleDisconnectSessionClosed ==
  /\ pc["reconnect"] = "hd_session_close"
  /\ ws' = "none"
  /\ session' = "none"
  /\ LoopHead(pc)
  /\ UNCHANGED <<running, should_reconnect, lock_holder, lock_q, raced, disc_from, prev_failed, last_exit>>

\* asyncio.sleep(backoff) returns: the check of _should_reconnect, then connect()
ReconnectWake ==
  /\ pc["reconnect"] = "sleep"
  /\ backoff' = 0
  /\ IF ~should_reconnect
     THEN /\ pc' = [pc EXCEPT !["reconnect"] = "done"]
          /\ rec_exit' = "stopped"
          /\ UNCHANGED <<lock_holder, lock_q, session>>
     ELSE ConnectEnter("reconnect")
  /\ UNCHANGED <<ws, running, should_reconnect, reconnect_attempts, raced, disc_from,
                 outage_try, prev_failed, last_exit>>

(* ---------------------------- disconnect ------------------------------ *)
\* disconnect() returning without awaiting the listener task
AwaitListenTask_NoAwait == "returned"

\* if self._listen_task: await self._listen_task
AwaitListenTask == IF pc["listener"] \in {"created", "running"} THEN "await_listen" ELSE "returned"

\* disconnect() from "if self.session" to its next suspension
DisconnectFromSession(p) ==
  IF session # "none"
  THEN /\ session' = "closed"
       /\ pc' = [p EXCEPT !["disconnect"] = "session_close"]
  ELSE /\ session' = session
       /\ pc' = [p EXCEPT !["disconnect"] = AwaitListenTask]

\* disconnect() leaving the connection open
DisconnectFromWs_NoClose(p) ==
  IF ws # "none"
  THEN /\ ws' = ws
       /\ session' = session
       /\ pc' = [p EXCEPT !["disconnect"] = "ws_close"]
  ELSE /\ ws' = ws
       /\ DisconnectFromSession(p)

\* disconnect() from "if self.ws" to its next suspension
DisconnectFromWs(p) ==
  IF ws # "none"
  THEN /\ ws' = "closed"
       /\ session' = session
       /\ pc' = [p EXCEPT !["disconnect"] = "ws_close"]
  ELSE /\ ws' = ws
       /\ DisconnectFromSession(p)

\* disconnect() never cancelling the reconnect task
ReconnectTaskPending_Never == FALSE

\* if self._reconnect_task and not self._reconnect_task.done()
ReconnectTaskPending == TaskAlive(pc["reconnect"])

(* disconnect() from the state lock taken to its next suspension: the two
   flags, the lock released, then the reconnect task cancelled and awaited.
   A cancelled task runs no further line of _handle_disconnect,
   _reconnect_loop or connect(): no except clause there catches
   CancelledError; it leaves the lock and its queue. q is the lock's queue. *)
DisconnectLocked(q) ==
  /\ should_reconnect' = FALSE
  /\ running' = FALSE
  /\ IF ReconnectTaskPending
     THEN /\ pc' = [pc EXCEPT !["reconnect"] = "done", !["disconnect"] = "await_reconnect"]
          /\ rec_exit' = "cancelled"
          /\ backoff' = 0
          /\ lock_q' = SelectSeq(q, LAMBDA x : x # "reconnect")
          /\ lock_holder' = IF lock_holder = "reconnect" THEN "none" ELSE lock_holder
          /\ UNCHANGED <<ws, session>>
     ELSE /\ DisconnectFromWs(pc)
          /\ lock_q' = q
          /\ UNCHANGED <<rec_exit, backoff, lock_holder>>

\* the client is connected: the flag, an open connection, a listener task
Connected == running /\ ws = "open" /\ pc["listener"] \in {"created", "running"}

\* the connection state of the client
ClientState ==
  IF pc["reconnect"] \in {"wait_lock", "ws_connect", "fail_close_session"} THEN "attempt"
  ELSE IF pc["reconnect"] = "sleep" THEN "backoff"
  ELSE IF TaskAlive(pc["reconnect"]) THEN "dropped"
  ELSE IF TaskAlive(pc["caller"]) THEN "connecting"
  ELSE IF Connected THEN "connected"
  ELSE "disconnected"

\* Bot.close calls disconnect()
CallDisconnect ==
  /\ pc["disconnect"] = "idle"
  /\ raced' = IF \E t \in ConnectTasks : pc[t] = "ws_connect" THEN "pending" ELSE raced
  /\ disc_from' = ClientState
  /\ IF lock_holder = "none" /\ lock_q = <<>>
     THEN DisconnectLocked(lock_q)
     ELSE /\ pc' = [pc EXCEPT !["disconnect"] = "wait_lock"]
          /\ lock_q' = Append(lock_q, "disconnect")
          /\ UNCHANGED <<ws, session, running, should_reconnect, lock_holder, backoff, rec_exit>>
  /\ UNCHANGED <<reconnect_attempts, outage_try, prev_failed, last_exit>>

\* the lock is free again: its first waiter takes it and goes on
LockWakeFirst ==
  /\ lock_holder = "none"
  /\ lock_q # <<>>
  /\ IF Head(lock_q) = "disconnect"
     THEN DisconnectLocked(Tail(lock_q))
     ELSE /\ ConnectLocked(Head(lock_q))
          /\ lock_q' = Tail(lock_q)
          /\ UNCHANGED <<ws, running, should_reconnect, backoff>>
  /\ UNCHANGED <<reconnect_attempts, raced, disc_from, outage_try, prev_failed, last_exit>>

\* await self._reconnect_task returns (CancelledError caught)
DisconnectReconnectAwaited ==
  /\ pc["disconnect"] = "await_reconnect"
  /\ DisconnectFromWs(pc)
  /\ UNCHANGED <<running, should_reconnect, reconnect_attempts, lock_holder, lock_q, backoff,
                 raced, disc_from, rec_exit, outage_try, prev_failed, last_exit>>

\* ws.close() returns
DisconnectWsClosed ==
  /\ pc["disconnect"] = "ws_close"
  /\ DisconnectFromSession(pc)
  /\ UNCHANGED <<ws, running, should_reconnect, reconnect_attempts, lock_holder, lock_q, backoff,
                 raced, disc_from, rec_exit, outage_try, prev_failed, last_exit>>

\* session.close() returns
DisconnectSessionClosed ==
  /\ pc["disconnect"] = "session_close"
  /\ pc' = [pc EXCEPT !["disconnect"] = AwaitListenTask]
  /\ UNCHANGED <<ws, session, running, should_reconnect, reconnect_attempts, lock_holder,
                 lock_q, backoff, raced, disc_from, rec_exit, outage_try, prev_failed, last_exit>>

\* await self._listen_task returns
DisconnectListenAwaited ==
  /\ pc["disconnect"] = "await_listen"
  /\ pc["listener"] = "done"
  /\ pc' = [pc EXCEPT !["disconnect"] = "returned"]
  /\ UNCHANGED <<ws, session, running, should_reconnect, reconnect_attempts, lock_holder,
                 lock_q, backoff, raced, disc_from, rec_exit, outage_try, prev_failed, last_exit>>

(* ---------------------- _listen: the messages ------------------------- *)
(* ------------------------------ bounds -------------------------------- *)
\* handlers registered with add_listener
MaxHandlers == 3
\* messages the listener reads
MaxMessages == 3

\* the event types handlers are registered for; "unknown" is what
\* data.get("type", "unknown") gives for an object without a type
EventTypes == {"executed", "unknown"}

(* the kinds of message the connection delivers:
     event      TEXT, a JSON object with a type
     notype     TEXT, a JSON object without a type
     badjson    TEXT, not JSON
     nonobject  TEXT, JSON but not an object (a list, a number, a string, null)
     binary     a frame that is neither TEXT nor ERROR *)
MsgKinds == {"event", "notype", "badjson", "nonobject", "binary"}

\* unparseable or malformed payloads
Malformed == {"notype", "badjson", "nonobject"}

NoMsg == "none"

InitListen ==
  /\ callbacks = [T \in EventTypes |-> <<>>]
  /\ lmsg = NoMsg
  /\ lidx = 0
  /\ hbusy = FALSE
  /\ invoked = <<>>
  /\ hraised = 0
  /\ lkind = "none"
  /\ lcount = 0

\* the handlers registered so far
Registered == Len(callbacks["executed"]) + Len(callbacks["unknown"])

\* add_listener(event_type, callback): the callback goes to the end of the list
add_listener(T) ==
  /\ Registered < MaxHandlers
  /\ callbacks' = [callbacks EXCEPT ![T] = Append(@, Registered + 1)]
  /\ UNCHANGED <<lmsg, lidx, hbusy, invoked, hraised, lkind, lcount>>

\* the listener loop is between two messages
LoopIdle == lmsg = NoMsg

\* the message read is taken off the connection and parsed, to the first
\* handler or to the next message
ReadMessage ==
  /\ lcount < MaxMessages
  /\ lcount' = lcount + 1
  /\ invoked' = <<>>
  /\ hraised' = 0
  /\ hbusy' = FALSE
  /\ callbacks' = callbacks
  /\ \E kind \in MsgKinds :
       /\ lkind' = kind
       /\ IF kind = "event"
          THEN /\ lmsg' = "executed"
               /\ lidx' = 1
               /\ UNCHANGED wsVars
          ELSE IF kind = "notype"
          THEN /\ lmsg' = "unknown"
               /\ lidx' = 1
               /\ UNCHANGED wsVars
          ELSE IF kind = "nonobject"
          THEN /\ lmsg' = NoMsg
               /\ lidx' = 0
               /\ ListenFinally
          ELSE /\ lmsg' = NoMsg
               /\ lidx' = 0
               /\ UNCHANGED wsVars

\* each message is handled as it arrives, whatever the loop is doing
ListenRead_Concurrent ==
  /\ pc["listener"] = "running"
  /\ ws = "open"
  /\ ReadMessage

(* async for msg in self.ws, to the first handler or to the next message: the
   loop asks the connection for a message only when the for loop over the
   handlers of the last one is over.
   json.loads raises JSONDecodeError on text that is not JSON: caught, the
   message is skipped. data.get raises AttributeError on JSON that is not an
   object: only the outer except clause catches it, the loop is left and the
   finally clause runs. *)
ListenRead ==
  /\ pc["listener"] = "running"
  /\ ws = "open"
  /\ LoopIdle
  /\ ReadMessage

\* await callback(data) starts the next handler of the list; the handler runs
\* to its first suspension (a persistence call, a sleep)
ListenCall ==
  /\ pc["listener"] = "running"
  /\ ~LoopIdle
  /\ ~hbusy
  /\ lidx <= Len(callbacks[lmsg])
  /\ hbusy' = TRUE
  /\ UNCHANGED <<callbacks, lmsg, lidx, invoked, hraised, lkind, lcount>>
  /\ UNCHANGED wsVars

\* a handler raising ends the loop
AfterHandlerRaised_Abort == "abort"

\* except Exception around await handler(data): logged, on to the next handler
AfterHandlerRaised == "next"

\* the handler awaited returns or raises
ListenInvoke ==
  /\ pc["listener"] = "running"
  /\ ~LoopIdle
  /\ hbusy
  /\ lidx <= Len(callbacks[lmsg])
  /\ hbusy' = FALSE
  /\ invoked' = Append(invoked, callbacks[lmsg][lidx])
  /\ \E ok \in BOOLEAN :
       /\ hraised' = hraised + (IF ok THEN 0 ELSE 1)
       /\ IF ok \/ AfterHandlerRaised = "next"
          THEN /\ lidx' = lidx + 1
               /\ lmsg' = lmsg
               /\ UNCHANGED wsVars
          ELSE /\ lidx' = 0
               /\ lmsg' = NoMsg
               /\ ListenFinally
  /\ UNCHANGED <<callbacks, lkind, lcount>>

\* the for loop over the handlers is over: back to async for
ListenDispatched ==
  /\ pc["listener"] = "running"
  /\ ~LoopIdle
  /\ ~hbusy
  /\ lidx > Len(callbacks[lmsg])
  /\ lmsg' = NoMsg
  /\ lidx' = 0
  /\ UNCHANGED <<callbacks, hbusy, invoked, hraised, lkind, lcount>>
  /\ UNCHANGED wsVars

(* ---------------------- connect() called again ------------------------ *)
(* connect() tests only _should_reconnect: called on a client that has a
   listener task it opens another connection and overwrites self.ws and
   self._listen_task. The task and the connection it no longer names (an
   orphan) live on: the task reads its own connection until that closes. *)

(* ------------------------------ bounds -------------------------------- *)
\* connect() calls made after the first one
MaxCalls == 2

InitCalls ==
  /\ calls = 0
  /\ orphans = 0

\* the listener tasks alive
AliveListeners == orphans + (IF TaskAlive(pc["listener"]) THEN 1 ELSE 0)

\* the connections open: the one self.ws names and those of the orphans
OpenConnections == orphans + (IF ws = "open" THEN 1 ELSE 0)

\* a caller whose connect() has ended calls connect() again
CallConnectAgain ==
  /\ pc["caller"] \in {"returned", "raised"}
  /\ calls < MaxCalls
  /\ calls' = calls + 1
  /\ ConnectEnter("caller")
  /\ UNCHANGED <<ws, running, should_reconnect, reconnect_attempts, backoff, raced, disc_from,
                 outage_try, prev_failed, last_exit, orphans>>

\* self._listen_task = asyncio.create_task(self._listen()): the task named
\* until then, if alive, is an orphan from now on
ListenTaskReplaced ==
  orphans' = IF ws' = "open" /\ TaskAlive(pc["listener"]) THEN orphans + 1 ELSE orphans

\* self._reconnect_task = asyncio.create_task(...) would leave a live
\* reconnect task unnamed; the runs followed have one reconnect task
OneReconnectTask == ReconnectWanted => ~TaskAlive(pc["reconnect"])

\* the connection of an orphan closes: its async for ends, then its finally clause
OrphanExit ==
  /\ orphans > 0
  /\ OneReconnectTask
  /\ orphans' = orphans - 1
  /\ IF ReconnectWanted
     THEN /\ pc' = [pc EXCEPT !["reconnect"] = "created"]
          /\ outage_try' = 0
     ELSE UNCHANGED <<pc, outage_try>>
  /\ UNCHANGED <<ws, session, running, should_reconnect, reconnect_attempts, lock_holder,
                 lock_q, backoff, raced, disc_from, rec_exit, prev_failed, last_exit, calls>>

(* --------------------------- specifications --------------------------- *)
\* no event emitted, no reconnection made
InitDrop ==
  /\ sent = [j \in Jobs |-> "no"]
  /\ cycles = 0

Init == InitJobs /\ InitAdmission /\ InitWS /\ InitCalls /\ InitListen /\ InitDrop

NextJobs ==
  \/ Tick /\ UNCHANGED <<admVars, jobLogVars, notJobVars>>
  \/ \E j \in Tracked : CreateCheck(j, "none") /\ UNCHANGED <<jobLogVars, notJobVars>>
  \/ \E j \in Tracked : CreateSubmit(j) /\ UNCHANGED <<jobLogVars, notJobVars>>
  \/ \E j \in Tracked : CreatePersist(j) /\ UNCHANGED <<jobLogVars, notJobVars>>
  \/ \E j \in Tracked : Submitted(j) /\ OnExecutionStart(j) /\ UNCHANGED <<admVars, jobLogVars, notJobVars>>
  \/ \E j \in Tracked : Submitted(j) /\ OnProgress(j) /\ UNCHANGED <<admVars, jobLogVars, notJobVars>>
  \/ \E j \in Tracked : Submitted(j) /\ OnExecutionError(j) /\ UNCHANGED <<admVars, jobLogVars, notJobVars>>
  \/ \E j \in Tracked : Submitted(j) /\ OnExecuted(j) /\ UNCHANGED <<admVars, jobLogVars, notJobVars>>
  \/ ScheduleDelivery /\ UNCHANGED <<admVars, jobLogVars, notJobVars>>
  \/ \E j \in Tracked : TimerExpire(j) /\ UNCHANGED <<admVars, jobLogVars, notJobVars>>
  \/ \E j \in Tracked : DeliverDone(j) /\ UNCHANGED <<admVars, jobLogVars, notJobVars>>
  \/ \E j \in Tracked : CancelRead(j) /\ UNCHANGED <<admVars, jobLogVars, notJobVars>>
  \/ \E j \in Tracked : CancelInterrupt(j) /\ UNCHANGED <<admVars, jobLogVars, notJobVars>>
  \/ \E j \in Tracked : CancelDelete(j) /\ UNCHANGED <<admVars, jobLogVars, notJobVars>>
  \/ \E j \in Tracked : CancelWrite(j) /\ UNCHANGED <<admVars, jobLogVars, notJobVars>>

SpecJobs == Init /\ [][NextJobs]_vars

ReconnectStep ==
  \/ HandleDisconnect
  \/ HandleDisconnectWsClosed
  \/ HandleDisconnectSessionClosed
  \/ ReconnectWake
  \/ ConnectFailClosed("reconnect")
  \/ LockWakeFirst

NextWS ==
  \/ CallConnect /\ UNCHANGED notWsVars
  \/ CallDisconnect /\ UNCHANGED notWsVars
  \/ LockWakeFirst /\ UNCHANGED notWsVars
  \/ \E t \in ConnectTasks : WsConnectOk(t) /\ UNCHANGED notWsVars
  \/ \E t \in ConnectTasks : Refuses(t, MaxAttempts) /\ WsConnectFail(t) /\ UNCHANGED notWsVars
  \/ \E t \in ConnectTasks : ConnectFailClosed(t) /\ UNCHANGED notWsVars
  \/ ListenStart /\ UNCHANGED notWsVars
  \/ ChannelDrop /\ UNCHANGED notWsVars
  \/ ListenExit /\ UNCHANGED notWsVars
  \/ ListenError /\ UNCHANGED notWsVars
  \/ HandleDisconnect /\ UNCHANGED notWsVars
  \/ HandleDisconnectWsClosed /\ UNCHANGED notWsVars
  \/ HandleDisconnectSessionClosed /\ UNCHANGED notWsVars
  \/ ReconnectWake /\ UNCHANGED notWsVars
  \/ DisconnectReconnectAwaited /\ UNCHANGED notWsVars
  \/ DisconnectWsClosed /\ UNCHANGED notWsVars
  \/ DisconnectSessionClosed /\ UNCHANGED notWsVars
  \/ DisconnectListenAwaited /\ UNCHANGED notWsVars

SpecWS == Init /\ [][NextWS]_vars

(* The event loop runs every task that can run, and the backend, refusing
   connections for a while, accepts one in the end. *)
FairSpecWS ==
  /\ SpecWS
  /\ WF_vars(ReconnectStep /\ UNCHANGED notWsVars)
  /\ SF_vars(WsConnectOk("reconnect") /\ UNCHANGED notWsVars)

(* the client through outages in which the backend refuses one reconnect
   attempt after the other; nobody calls disconnect() *)
NextOutage ==
  \/ CallConnect /\ UNCHANGED notWsVars
  \/ \E t \in ConnectTasks : WsConnectOk(t) /\ UNCHANGED notWsVars
  \/ \E t \in ConnectTasks : Refuses(t, MaxOutage) /\ WsConnectFail(t) /\ UNCHANGED notWsVars
  \/ \E t \in ConnectTasks : ConnectFailClosed(t) /\ UNCHANGED notWsVars
  \/ ListenStart /\ UNCHANGED notWsVars
  \/ ChannelDrop /\ UNCHANGED notWsVars
  \/ ListenExit /\ UNCHANGED notWsVars
  \/ ListenError /\ UNCHANGED notWsVars
  \/ HandleDisconnect /\ UNCHANGED notWsVars
  \/ HandleDisconnectWsClosed /\ UNCHANGED notWsVars
  \/ HandleDisconnectSessionClosed /\ UNCHANGED notWsVars
  \/ ReconnectWake /\ UNCHANGED notWsVars

SpecOutage == Init /\ [][NextOutage]_vars

(* The event loop runs every task that can run, and the backend, refusing
   connections for a long while, accepts one in the end. *)
FairSpecOutage ==
  /\ SpecOutage
  /\ WF_vars(ReconnectStep /\ UNCHANGED notWsVars)
  /\ SF_vars(WsConnectOk("reconnect") /\ UNCHANGED notWsVars)

(* create_job calls of one user, with and without a server, and the events
   that start and fail the first jobs; the clock stands still *)
NextAdmission ==
  \/ \E j \in Jobs, server \in Servers :
       CreateCheck(j, server) /\ UNCHANGED <<jobLogVars, notJobVars>>
  \/ \E j \in Jobs : CreateSubmit(j) /\ UNCHANGED <<jobLogVars, notJobVars>>
  \/ \E j \in Jobs : CreatePersist(j) /\ UNCHANGED <<jobLogVars, notJobVars>>
  \/ \E j \in Started : Submitted(j) /\ OnExecutionStart(j) /\ UNCHANGED <<admVars, jobLogVars, notJobVars>>
  \/ \E j \in Started : Submitted(j) /\ OnExecutionError(j) /\ UNCHANGED <<admVars, jobLogVars, notJobVars>>

SpecAdmission == Init /\ [][NextAdmission]_vars

(* create_job calls of one user that overlap or not, and the events that
   start and fail the first jobs; the clock stands still *)
RaceServers == {"none", "known"}

(* ------------------------------ bounds -------------------------------- *)
\* calls are made until this many have raced
MaxRaces == 3

NextRace ==
  \/ \E j \in Jobs, server \in RaceServers :
       /\ race.n < MaxRaces
       /\ CreateCheck(j, server) /\ RaceLogged /\ UNCHANGED <<klog, ev, notJobVars>>
  \/ \E j \in Jobs : CreateSubmit(j) /\ RaceLogged /\ UNCHANGED <<klog, ev, notJobVars>>
  \/ \E j \in Jobs : CreatePersist(j) /\ RaceLogged /\ UNCHANGED <<klog, ev, notJobVars>>
  \/ \E j \in Started : Submitted(j) /\ OnExecutionStart(j) /\ UNCHANGED <<admVars, jobLogVars, notJobVars>>
  \/ \E j \in Started : Submitted(j) /\ OnExecutionError(j) /\ UNCHANGED <<admVars, jobLogVars, notJobVars>>

SpecRace == Init /\ [][NextRace]_vars

(* cancel_job calls on the job followed, among its events; the clock stands
   still, so no delivery task wakes *)
NextCancel ==
  \/ \E j \in Tracked : CreateCheck(j, "none") /\ UNCHANGED <<jobLogVars, notJobVars>>
  \/ \E j \in Tracked : CreateSubmit(j) /\ UNCHANGED <<jobLogVars, notJobVars>>
  \/ \E j \in Tracked : CreatePersist(j) /\ UNCHANGED <<jobLogVars, notJobVars>>
  \/ \E j \in Tracked : Submitted(j) /\ OnExecutionStart(j) /\ UNCHANGED <<admVars, jobLogVars, notJobVars>>
  \/ \E j \in Tracked : Submitted(j) /\ OnExecutionError(j) /\ UNCHANGED <<admVars, jobLogVars, notJobVars>>
  \/ \E j \in Tracked : Submitted(j) /\ OnExecuted(j) /\ UNCHANGED <<admVars, jobLogVars, notJobVars>>
  \/ ScheduleDelivery /\ UNCHANGED <<admVars, jobLogVars, notJobVars>>
  \/ \E j \in Tracked : CancelRead(j) /\ CancelLogged(j) /\ UNCHANGED <<admVars, ev, race, notJobVars>>
  \/ \E j \in Tracked : CancelInterrupt(j) /\ CancelLogged(j) /\ UNCHANGED <<admVars, ev, race, notJobVars>>
  \/ \E j \in Tracked : CancelDelete(j) /\ CancelLogged(j) /\ UNCHANGED <<admVars, ev, race, notJobVars>>
  \/ \E j \in Tracked : CancelWrite(j) /\ CancelLogged(j) /\ UNCHANGED <<admVars, ev, race, notJobVars>>

SpecCancel == Init /\ [][NextCancel]_vars

(* the handlers called with events of every type, for the job followed at
   any time of its life and for prompt ids that have no row; the clock stands
   still, so no delivery task wakes *)
NextEvents ==
  \/ \E j \in Tracked : CreateCheck(j, "none") /\ UNCHANGED <<jobLogVars, notJobVars>>
  \/ \E j \in Tracked : CreateSubmit(j) /\ UNCHANGED <<jobLogVars, notJobVars>>
  \/ \E j \in Tracked : CreatePersist(j) /\ UNCHANGED <<jobLogVars, notJobVars>>
  \/ \E j \in EventIds :
       OnExecutionStart(j) /\ EventLogged("execution_start", j)
         /\ UNCHANGED <<admVars, klog, race, notJobVars>>
  \/ \E j \in EventIds :
       OnProgress(j) /\ EventLogged("progress", j) /\ UNCHANGED <<admVars, klog, race, notJobVars>>
  \/ \E j \in EventIds :
       OnExecutionError(j) /\ EventLogged("execution_error", j)
         /\ UNCHANGED <<admVars, klog, race, notJobVars>>
  \/ \E j \in EventIds :
       OnExecuted(j) /\ EventLogged("executed", j) /\ UNCHANGED <<admVars, klog, race, notJobVars>>
  \/ ScheduleDelivery /\ UNCHANGED <<admVars, jobLogVars, notJobVars>>

SpecEvents == Init /\ [][NextEvents]_vars

(* the websocket client with connect() called more than once *)
NextWSCalls ==
  \/ CallConnect /\ UNCHANGED <<jobSide, callVars, listenVars>>
  \/ CallConnectAgain /\ UNCHANGED <<jobSide, listenVars>>
  \/ CallDisconnect /\ UNCHANGED notWsVars
  \/ LockWakeFirst /\ UNCHANGED notWsVars
  \/ \E t \in ConnectTasks :
       WsConnectOk(t) /\ ListenTaskReplaced /\ UNCHANGED <<jobSide, calls, listenVars>>
  \/ \E t \in ConnectTasks : Refuses(t, MaxAttempts) /\ WsConnectFail(t) /\ UNCHANGED notWsVars
  \/ \E t \in ConnectTasks : ConnectFailClosed(t) /\ UNCHANGED notWsVars
  \/ ListenStart /\ UNCHANGED notWsVars
  \/ ChannelDrop /\ UNCHANGED notWsVars
  \/ OneReconnectTask /\ ListenExit /\ UNCHANGED notWsVars
  \/ OneReconnectTask /\ ListenError /\ UNCHANGED notWsVars
  \/ OrphanExit /\ UNCHANGED <<jobSide, listenVars>>
  \/ HandleDisconnect /\ UNCHANGED notWsVars
  \/ HandleDisconnectWsClosed /\ UNCHANGED notWsVars
  \/ HandleDisconnectSessionClosed /\ UNCHANGED notWsVars
  \/ ReconnectWake /\ UNCHANGED notWsVars
  \/ DisconnectReconnectAwaited /\ UNCHANGED notWsVars
  \/ DisconnectWsClosed /\ UNCHANGED notWsVars
  \/ DisconnectSessionClosed /\ UNCHANGED notWsVars
  \/ DisconnectListenAwaited /\ UNCHANGED notWsVars

SpecWSCalls == Init /\ [][NextWSCalls]_vars

(* the listener loop on the first connection, message by message *)
NextListen ==
  \/ CallConnect /\ UNCHANGED notWsVars
  \/ WsConnectOk("caller") /\ UNCHANGED notWsVars
  \/ ListenStart /\ UNCHANGED notWsVars
  \/ ChannelDrop /\ UNCHANGED notWsVars
  \/ LoopIdle /\ ListenExit /\ UNCHANGED notWsVars
  \/ LoopIdle /\ ListenError /\ UNCHANGED notWsVars
  \/ \E T \in EventTypes : add_listener(T) /\ UNCHANGED <<jobSide, wsVars, callVars>>
  \/ ListenRead /\ UNCHANGED <<jobSide, callVars>>
  \/ ListenCall /\ UNCHANGED <<jobSide, callVars>>
  \/ ListenInvoke /\ UNCHANGED <<jobSide, callVars>>
  \/ ListenDispatched /\ UNCHANGED <<jobSide, callVars>>

SpecListen == Init /\ [][NextListen]_vars

(* the client with its listener loop handling messages, connect() called
   once and disconnect() called at any time; the handlers are registered
   before the first message is read *)
(* ------------------------------ bounds -------------------------------- *)
\* reconnect attempts refused in a row
StopAttempts == 2
\* messages read
StopMessages == 2

DisconnectStep ==
  \/ LockWakeFirst
  \/ DisconnectReconnectAwaited
  \/ DisconnectWsClosed
  \/ DisconnectSessionClosed
  \/ DisconnectListenAwaited

ConnectStep ==
  \/ \E t \in ConnectTasks : WsConnectOk(t)
  \/ \E t \in ConnectTasks : Refuses(t, StopAttempts) /\ WsConnectFail(t)
  \/ \E t \in ConnectTasks : ConnectFailClosed(t)

ListenerEnd ==
  \/ ListenStart
  \/ LoopIdle /\ ListenExit

HandlerStep ==
  \/ ListenCall
  \/ ListenInvoke
  \/ ListenDispatched

NextStop ==
  \/ CallConnect /\ UNCHANGED notWsVars
  \/ CallDisconnect /\ UNCHANGED notWsVars
  \/ DisconnectStep /\ UNCHANGED notWsVars
  \/ ConnectStep /\ UNCHANGED notWsVars
  \/ ListenerEnd /\ UNCHANGED notWsVars
  \/ ChannelDrop /\ UNCHANGED notWsVars
  \/ LoopIdle /\ ListenError /\ UNCHANGED notWsVars
  \/ HandleDisconnect /\ UNCHANGED notWsVars
  \/ HandleDisconnectWsClosed /\ UNCHANGED notWsVars
  \/ HandleDisconnectSessionClosed /\ UNCHANGED notWsVars
  \/ ReconnectWake /\ UNCHANGED notWsVars
  \/ lcount = 0 /\ add_listener("executed") /\ UNCHANGED <<jobSide, wsVars, callVars>>
  \/ lcount < StopMessages /\ ListenRead /\ UNCHANGED <<jobSide, callVars>>
  \/ HandlerStep /\ UNCHANGED <<jobSide, callVars>>

SpecStop == Init /\ [][NextStop]_vars

(* The event loop runs every task that can run: the lock goes to its first
   waiter, ws_connect and the close calls return, a handler awaited returns
   or raises, a listener whose connection is closed leaves its loop. *)
FairSpecStop ==
  /\ SpecStop
  /\ WF_vars(DisconnectStep /\ UNCHANGED notWsVars)
  /\ WF_vars(ConnectStep /\ UNCHANGED notWsVars)
  /\ WF_vars(ListenerEnd /\ UNCHANGED notWsVars)
  /\ WF_vars(HandlerStep /\ UNCHANGED <<jobSide, callVars>>)

(* the client through drops and reconnections, its listener loop handling
   messages; the handlers are registered before the first reconnection and
   nobody calls disconnect() *)
(* ------------------------------ bounds -------------------------------- *)
\* reconnections counted
MaxCycles == 2

\* connect() replacing the handler registry by an empty one
ConnectOk_NewRegistry(t) ==
  /\ WsConnectOk(t)
  /\ cycles' = IF t = "reconnect" /\ should_reconnect THEN cycles + 1 ELSE cycles
  /\ callbacks' = [T \in EventTypes |-> <<>>]
  /\ UNCHANGED <<lmsg, lidx, hbusy, invoked, hraised, lkind, lcount>>

(* ws_connect returns a connection: connect() assigns self.ws and
   self._listen_task and nothing else; self._callbacks is written by
   add_listener only, and the new listener task reads the same dict *)
ConnectOk(t) ==
  /\ WsConnectOk(t)
  /\ cycles' = IF t = "reconnect" /\ should_reconnect THEN cycles + 1 ELSE cycles
  /\ UNCHANGED listenVars

NextCycles ==
  \/ CallConnect /\ UNCHANGED notWsVars
  \/ \E t \in ConnectTasks : ConnectOk(t) /\ UNCHANGED <<jobVars, admVars, jobLogVars, sent, callVars>>
  \/ \E t \in ConnectTasks : Refuses(t, StopAttempts) /\ WsConnectFail(t) /\ UNCHANGED notWsVars
  \/ \E t \in ConnectTasks : ConnectFailClosed(t) /\ UNCHANGED notWsVars
  \/ ListenerEnd /\ UNCHANGED notWsVars
  \/ cycles < MaxCycles /\ ChannelDrop /\ UNCHANGED notWsVars
  \/ cycles < MaxCycles /\ LoopIdle /\ ListenError /\ UNCHANGED notWsVars
  \/ HandleDisconnect /\ UNCHANGED notWsVars
  \/ HandleDisconnectWsClosed /\ UNCHANGED notWsVars
  \/ HandleDisconnectSessionClosed /\ UNCHANGED notWsVars
  \/ ReconnectWake /\ UNCHANGED notWsVars
  \/ \E T \in EventTypes :
       cycles = 0 /\ add_listener(T) /\ UNCHANGED <<jobSide, wsVars, callVars>>
  \/ ListenRead /\ UNCHANGED <<jobSide, callVars>>
  \/ HandlerStep /\ UNCHANGED <<jobSide, callVars>>

SpecCycles == Init /\ [][NextCycles]_vars

(* the orchestrator behind a channel that drops: create_job called once the
   start-up connect() has returned, the backend emitting one terminal event
   per job on the connection it has, the listener handing the events it
   reads to the handlers of the job manager; the clock stands still and
   nobody calls disconnect() or cancel_job *)
\* the events that end a job: executed with images, execution_error
TerminalEvents == {"executed", "execution_error"}

\* what a step of the client leaves alone besides the events on its connection
keptByClient == <<jobVars, admVars, jobLogVars, callVars, listenVars>>

\* an event on a connection is read from that connection or not at all: the
\* events not read when self.ws stops being an open connection are lost
LoseInFlight ==
  sent' = [j \in Jobs |->
             IF sent[j] \in TerminalEvents /\ ws' # "open" THEN "lost" ELSE sent[j]]

\* the backend emits the terminal event of a job: to the websocket connected,
\* or to nobody
BackendEmit(j) ==
  /\ cpc[j] = "created"
  /\ sent[j] = "no"
  /\ \E type \in TerminalEvents :
       sent' = [sent EXCEPT ![j] = IF ws = "open" THEN type ELSE "lost"]
  /\ UNCHANGED <<keptByClient, wsVars, cycles>>

\* async for msg in self.ws gives the event; its handler runs to the return
\* of update_job_status
ReceiveEvent(j) ==
  /\ sent[j] \in TerminalEvents
  /\ pc["listener"] = "running"
  /\ ws = "open"
  /\ IF sent[j] = "executed"
     THEN OnExecuted(j) /\ hpc' = "scheduling"
     ELSE OnExecutionError(j)
  /\ sent' = [sent EXCEPT ![j] = "received"]
  /\ UNCHANGED <<admVars, jobLogVars, callVars, listenVars, wsVars, cycles>>

\* create_job, called by a command: the bot handles commands once setup_hook,
\* and with it the start-up connect(), has returned
CreateStep ==
  \/ \E j \in Tracked : pc["caller"] = "returned" /\ CreateCheck(j, "none")
  \/ \E j \in Tracked : CreateSubmit(j)
  \/ \E j \in Tracked : CreatePersist(j)

\* the steps of the client that end an outage, the backend willing
RecoverStep ==
  \/ HandleDisconnect
  \/ HandleDisconnectWsClosed
  \/ HandleDisconnectSessionClosed
  \/ ReconnectWake
  \/ ConnectFailClosed("reconnect")
  \/ ListenerEnd

NextDrop ==
  \/ CallConnect /\ UNCHANGED notWsVars
  \/ \E t \in ConnectTasks : ConnectOk(t) /\ LoseInFlight /\ UNCHANGED keptByClient
  \/ Refuses("reconnect", StopAttempts) /\ WsConnectFail("reconnect") /\ UNCHANGED notWsVars
  \/ RecoverStep /\ LoseInFlight /\ UNCHANGED <<keptByClient, cycles>>
  \/ cycles < MaxCycles /\ ChannelDrop /\ LoseInFlight /\ UNCHANGED <<keptByClient, cycles>>
  \/ cycles < MaxCycles /\ ListenError /\ UNCHANGED notWsVars
  \/ CreateStep /\ UNCHANGED <<jobLogVars, notJobVars>>
  \/ \E j \in Tracked : BackendEmit(j)
  \/ \E j \in Tracked : ReceiveEvent(j)
  \/ ScheduleDelivery /\ UNCHANGED <<admVars, jobLogVars, notJobVars>>

SpecDrop == Init /\ [][NextDrop]_vars

(* The event loop runs every task that can run: create_job, the handlers, the
   listener and the reconnect task go on; the listener reads the event that
   is on its connection; and the backend, refusing connections for a while,
   accepts one in the end. *)
FairSpecDrop ==
  /\ SpecDrop
  /\ WF_vars(RecoverStep /\ LoseInFlight /\ UNCHANGED <<keptByClient, cycles>>)
  /\ SF_vars(ConnectOk("reconnect") /\ LoseInFlight /\ UNCHANGED keptByClient)
  /\ WF_vars(CreateStep /\ UNCHANGED <<jobLogVars, notJobVars>>)
  /\ WF_vars(\E j \in Tracked : ReceiveEvent(j))
  /\ WF_vars(ScheduleDelivery /\ UNCHANGED <<admVars, jobLogVars, notJobVars>>)

(* ============================== claims ================================ *)

(* C1: terminal statuses are absorbing: once a Job's persisted status is
   completed, failed or cancelled, no step changes it. *)
C1_TerminalAbsorbing ==
  [][\A j \in Jobs :
       rows[j].status \in TerminalStatuses => rows'[j].status = rows[j].status]_vars

(* the edges of the Job state machine *)
JobEdges ==
  {<<PENDING, RUNNING>>, <<RUNNING, COMPLETED>>, <<RUNNING, FAILED>>,
   <<PENDING, CANCELLED>>, <<RUNNING, CANCELLED>>}

(* C2: every change of a Job's persisted status is an edge of the state
   machine pending -> running -> {completed, failed}, pending -> cancelled,
   running -> cancelled. *)
C2_OnlyStateMachineEdges ==
  [][\A j \in Jobs :
       (rows[j].status # ABSENT /\ rows'[j].status # rows[j].status)
         => <<rows[j].status, rows'[j].status>> \in JobEdges]_vars

(* C3: debounced delivery. While every executed event of a job has arrived
   less than the debounce window after the one before it, deliver_job has
   been called at most once, that call came a full window or more after the
   last event and carried the images of the last event, and it has been
   called once no delivery task is left and no handler is under way. *)
C3_DebouncedDelivery ==
  \A j \in Jobs :
    (burst[j].ok /\ burst[j].n >= 1) =>
      /\ delivered[j].n <= 1
      /\ delivered[j].n = 1 =>
           /\ delivered[j].at >= burst[j].last + DebounceTicks
           /\ delivered[j].images = burst[j].n
      /\ (timers[j].pc = "none" /\ hpc = "idle") => delivered[j].n = 1

(* C4: deliver_job is called with the Job as persisted at that moment: the
   Job object it receives equals the row then in the table. *)
C4_DeliversCurrentRow ==
  \A j \in Jobs : delivered[j].n >= 1 => delivered[j].fresh

\* a connect() call is under way
InConnect(t) == pc[t] \in {"wait_lock", "ws_connect", "fail_close_session"}

(* C5: disconnect() called while a connect() is suspended in ws_connect:
   once both have returned, the connection and the session are closed, no
   listener task is alive and no reconnect task is alive, whether ws_connect
   returned a connection or raised. *)
C5_DisconnectDuringConnect ==
  (/\ raced \in {"ok", "fail"}
   /\ pc["disconnect"] = "returned"
   /\ \A t \in ConnectTasks : ~InConnect(t))
    => /\ ws # "open"
       /\ session # "open"
       /\ ~TaskAlive(pc["listener"])
       /\ ~TaskAlive(pc["reconnect"])

\* disconnect() was called during a ws_connect that then returned a connection, and has returned
C5_Witness == raced = "ok" /\ pc["disconnect"] = "returned"

(* C6: after disconnect() has returned, from whichever state it was called,
   no reconnect task is alive, no listener task is alive, no connect attempt
   is under way and no connection is open. *)
C6_NoReconnectAfterDisconnect ==
  pc["disconnect"] = "returned"
    => /\ ~TaskAlive(pc["reconnect"])
       /\ ~TaskAlive(pc["listener"])
       /\ \A t \in ConnectTasks : pc[t] # "ws_connect"
       /\ ws # "open"

\* disconnect() was called while the reconnect task was inside a connect attempt, and has returned
C6_Witness == disc_from = "attempt" /\ pc["disconnect"] = "returned"

(* C7: when the listener loop ends because the channel closed or errored,
   with the stay-connected intent true one reconnect task is started and no
   other is alive; with the intent false none is started, none is alive, and
   no connection is opened while the intent is false. *)
C7_ListenerEndReconnects ==
  [][/\ (pc["listener"] = "running" /\ pc'["listener"] = "done")
          => IF should_reconnect
             THEN ~TaskAlive(pc["reconnect"]) /\ pc'["reconnect"] = "created"
             ELSE ~TaskAlive(pc["reconnect"]) /\ pc'["reconnect"] = pc["reconnect"]
     /\ ~should_reconnect => (ws' = "open" => ws = "open") /\ ~TaskAlive(pc'["reconnect"])]_vars

\* a listener has ended with the intent false, after an earlier one had
\* ended with the intent true and its reconnect task had connected
C7_Witness == last_exit = "final" /\ rec_exit = "connected" /\ pc["listener"] = "done"

(* C8: with the stay-connected intent true, a failed reconnect attempt is
   followed by a backoff and another attempt, the attempt counter one
   higher; the reconnect task ends only connected or cancelled by
   disconnect(); and a reconnect task in backoff leads to the client
   connected with a listener task, unless the intent is withdrawn. *)
C8_ReconnectRetries ==
  /\ [][(pc["reconnect"] = "fail_close_session" /\ pc'["reconnect"] # "fail_close_session"
         /\ should_reconnect')
          => pc'["reconnect"] = "sleep" /\ reconnect_attempts' = reconnect_attempts + 1]_vars
  /\ [](pc["reconnect"] = "done" => rec_exit \in {"connected", "cancelled"})
  /\ (pc["reconnect"] = "sleep") ~> (Connected \/ ~should_reconnect)

\* the client is connected again by a reconnect task that had failed attempts before
C8_Witness == Connected /\ rec_exit = "connected" /\ prev_failed >= 1

(* C9: the delay slept before the n-th consecutive reconnect attempt of an
   outage lies within 10% of min(cap, base * multiplier^(n-1)). *)
C9_BackoffDelay ==
  pc["reconnect"] = "sleep" =>
    LET nominal == Min(MAX_BACKOFF * 1000,
                       INITIAL_BACKOFF * 1000 * BACKOFF_MULTIPLIER ^ (outage_try - 1))
    IN /\ 100 * backoff >= (100 - JITTER_PERCENT) * nominal
       /\ 100 * backoff <= (100 + JITTER_PERCENT) * nominal

(* C10: the attempt counter is 0 whenever the client is connected, it counts
   the attempts of the outage under way one by one, and the first attempt
   of every outage sleeps a delay of the range of attempt 1, whatever the
   number of failed attempts before the last connection. *)
C10_CounterReset ==
  /\ Connected => reconnect_attempts = 0
  /\ pc["reconnect"] = "sleep" => reconnect_attempts = outage_try
  /\ (pc["reconnect"] = "sleep" /\ outage_try = 1)
       => backoff \in {calculate_backoff(1, r) : r \in RandomSamples}

\* the first backoff of an outage that follows one with two or more failed attempts
C10_Witness == pc["reconnect"] = "sleep" /\ outage_try = 1 /\ prev_failed = 2

(* C11: connect() is idempotent: however often it is called, on a connected
   client or during a reconnect attempt, at most one listener task is alive
   and at most one connection is open. *)
C11_ConnectIdempotent == AliveListeners <= 1 /\ OpenConnections <= 1

(* C12: a malformed message (text that is not JSON, JSON that is not an
   object, an object without a type) is never fatal: reading it invokes no
   handler, leaves the listener loop running on the same open connection
   and starts no reconnect task. *)
C12_MalformedNeverFatal ==
  [][(lcount' = lcount + 1 /\ lkind' \in Malformed)
       => /\ pc'["listener"] = "running"
          /\ pc'["reconnect"] = pc["reconnect"]
          /\ ws' = ws
          /\ (lmsg' = NoMsg \/ callbacks[lmsg'] = <<>>)]_vars

(* C13: the handlers registered for the type of a message are invoked each
   once, in registration order: while the message is dispatched the handlers
   invoked are the first ones of the list, when its dispatch ends they are
   the whole list, whether or not handlers raised, and the loop goes on. *)
C13_HandlersInOrder ==
  /\ [](~LoopIdle => invoked = SubSeq(callbacks[lmsg], 1, lidx - 1))
  /\ [][(~LoopIdle /\ lmsg' = NoMsg)
          => /\ invoked' = callbacks[lmsg]
             /\ pc'["listener"] = "running"]_vars

\* the dispatch of a message to two or more handlers, one of which raised, is over
C13_Witness == LoopIdle /\ Len(invoked) >= 2 /\ hraised >= 1 /\ pc["listener"] = "running"

(* -------------------------- admission claims -------------------------- *)
\* a step in which a create_job call for prompt id j made its queue limit check
CheckStep(j) ==
  /\ cpc[j] = "free"
  /\ <<cpc'[j], cres'[j], cscope'[j]>> # <<cpc[j], cres[j], cscope[j]>>

\* the check of that step let the call through to queue_prompt
Accepted(j) == cpc'[j] = "queue_prompt"

\* the user's jobs pending or running, those created with the scope when the
\* call gives a scope
ActiveOfGivenScope(server) ==
  Cardinality({i \in Jobs : /\ rows[i].status \in {PENDING, RUNNING}
                            /\ server # "none" => cscope[i] = server})

\* the user's jobs pending or running, those created with the scope when the
\* call gives a scope that has a Server row
ActiveOfKnownScope(server) ==
  Cardinality({i \in Jobs : /\ rows[i].status \in {PENDING, RUNNING}
                            /\ server = "known" => cscope[i] = "known"})

(* C14 as stated: a create_job call passes the queue limit check iff the
   user's pending or running jobs, those of the scope whenever a scope is
   given, are fewer than the ceiling (the server's limit when the server has
   a row, 3 otherwise). *)
C14_AdmissionGivenScope ==
  [][\A j \in Jobs :
       CheckStep(j) =>
         /\ Accepted(j) <=> ActiveOfGivenScope(cscope'[j]) < max_queue(cscope'[j])
         /\ ~Accepted(j) => cres'[j] = "rejected"]_vars

(* C14, amended: a create_job call passes the queue limit check iff the
   user's pending or running jobs, those of the scope when the scope is one
   that has a Server row and all of them otherwise, are fewer than the
   ceiling (the server's limit when the server has a row, 3 otherwise); it
   is rejected otherwise. *)
C14_AdmissionKnownScope ==
  [][\A j \in Jobs :
       CheckStep(j) =>
         /\ Accepted(j) <=> ActiveOfKnownScope(cscope'[j]) < max_queue(cscope'[j])
         /\ ~Accepted(j) => cres'[j] = "rejected"]_vars

\* a call naming the server without a row was rejected with 3 jobs active
\* (one of them of the server that has a row), while a call is let through
\* with one job fewer in its count
C14_Witness ==
  \E j, i, a \in Jobs :
    /\ cpc[j] = "free" /\ cres[j] = "rejected" /\ cscope[j] = "unknown"
    /\ ActiveOfKnownScope("unknown") = DEFAULT_MAX_QUEUE
    /\ rows[i].status = RUNNING /\ cscope[i] = "known"
    /\ cpc[a] = "created" /\ cscope[a] = "known"
    /\ ActiveOfKnownScope("known") <= max_queue_per_user

(* C15: a create_job call that the queue limit check rejects raises before
   queue_prompt is called: in the step of its rejection no call reaches or
   leaves queue_prompt, no row is inserted and no row changes; the prompt id
   it would have got has no row. *)
C15_RejectedDoesNothing ==
  /\ [][\A j \in Jobs :
          (CheckStep(j) /\ cres'[j] = "rejected") => (cpc' = cpc /\ rows' = rows)]_vars
  /\ [](\A j \in Jobs :
          cres[j] = "rejected" => (cpc[j] = "free" /\ rows[j].status = ABSENT))

\* a call was rejected while the user has rows, one of them running
C15_Witness ==
  \E j, i \in Jobs :
    /\ cres[j] = "rejected" /\ cpc[j] = "free" /\ rows[j].status = ABSENT
    /\ rows[i].status = RUNNING

(* C16: when queue_prompt raises or returns no prompt id, create_job raises
   and no row is inserted or changed; a row is inserted for a prompt id only
   by the call to which queue_prompt returned that id, and it is inserted
   pending. *)
C16_FailedSubmitNoRow ==
  /\ [][\A j \in Jobs :
          (cpc[j] = "queue_prompt" /\ cpc'[j] # "queue_prompt")
            => \/ cres'[j] = "failed" /\ cpc'[j] = "free" /\ rows' = rows
               \/ cres'[j] = "none" /\ cpc'[j] = "create_row" /\ rows' = rows]_vars
  /\ [][\A j \in Jobs :
          (rows[j].status = ABSENT /\ rows'[j].status # ABSENT)
            => /\ cpc[j] = "create_row" /\ cres[j] = "none"
               /\ rows'[j].status = PENDING
               /\ cres'[j] = "created"]_vars
  /\ [](\A j \in Jobs : cres[j] = "failed" => rows[j].status = ABSENT)

\* a submission failed after another call of the user had inserted its row
C16_Witness ==
  \E j, i \in Jobs :
    /\ cres[j] = "failed" /\ cpc[j] = "free" /\ rows[j].status = ABSENT
    /\ cpc[i] = "created" /\ rows[i].status = PENDING

\* the user's jobs that have not reached a terminal status, those of the
\* server when the call names a server that has a row (completed_at is
\* written by the transitions to a terminal status and by nothing else)
NotTerminated(server) ==
  Cardinality({i \in Jobs : /\ rows[i].status # ABSENT
                            /\ rows[i].completed_at = NoTime
                            /\ server = "known" => cscope[i] = "known"})

(* C17: a transition to Failed, Completed or Cancelled frees the owner's
   slot: a create_job call is rejected while as many of the user's jobs as
   the ceiling have not terminated, and accepted once one of them has. *)
C17_TerminalFreesSlot ==
  [][\A j \in Jobs :
       CheckStep(j) =>
         (Accepted(j) <=> NotTerminated(cscope'[j]) < max_queue(cscope'[j]))]_vars

(* ------------------------- cancellation claims ------------------------ *)
\* a step in which a cancel_job call on job j read the job's status
CancelReadStep(j) == kpc[j] = "idle" /\ klog'[j] # klog[j]

(* C18: cancel_job on a job already completed, failed or cancelled returns
   False without raising, calls neither interrupt nor delete_queue_item and
   leaves the row as it is. *)
C18_CancelTerminalNoOp ==
  /\ [][\A j \in Jobs :
          (CancelReadStep(j) /\ rows[j].status \in TerminalStatuses)
            => /\ klog'[j] = [read |-> rows[j].status, interrupts |-> 0,
                              deletes |-> 0, result |-> "false"]
               /\ kpc'[j] = "idle"
               /\ rows' = rows]_vars
  /\ [](\A j \in Jobs :
          klog[j].read \in TerminalStatuses
            => klog[j] = [read |-> klog[j].read, interrupts |-> 0,
                          deletes |-> 0, result |-> "false"])

\* cancel_job returned False for a completed job that keeps its images
C18_Witness ==
  \E j \in Jobs :
    /\ klog[j].read = COMPLETED /\ klog[j].result = "false"
    /\ rows[j].status = COMPLETED /\ rows[j].output_images # NoImages
    /\ rows[j].completed_at # NoTime

(* C19: cancel_job on a pending job never calls interrupt; on a running job
   it calls interrupt once, and writes Cancelled only after that; in both
   cases delete_queue_item has been attempted, once, when the status is
   written, and nothing else writes Cancelled. *)
C19_CancelCallOrder ==
  /\ [](\A j \in Jobs :
          /\ klog[j].read = PENDING => klog[j].interrupts = 0
          /\ klog[j].read = RUNNING => klog[j].interrupts = 1
          /\ kpc[j] = "update" => klog[j].deletes = 1)
  /\ [][\A j \in Jobs :
          (rows'[j].status = CANCELLED /\ rows[j].status # CANCELLED)
            => /\ kpc[j] = "update"
               /\ klog[j].read \in {PENDING, RUNNING}
               /\ klog[j].deletes = 1
               /\ klog'[j].deletes = 1
               /\ klog'[j].interrupts = (IF klog[j].read = RUNNING THEN 1 ELSE 0)]_vars

\* a running job was cancelled: one interrupt, one delete_queue_item, then Cancelled
C19_Witness ==
  \E j \in Jobs :
    /\ klog[j] = [read |-> RUNNING, interrupts |-> 1, deletes |-> 1, result |-> "true"]
    /\ rows[j].status = CANCELLED

(* C20: the backend does not block a cancellation: a cancel_job call that
   went past the status check ends by returning True with the job Cancelled
   and completed_at set, whatever became of interrupt and delete_queue_item. *)
C20_CancelNotBlocked ==
  [][\A j \in Jobs :
       (kpc[j] # "idle" /\ kpc'[j] = "idle")
         => /\ klog'[j].result = "true"
            /\ rows'[j].status = CANCELLED
            /\ rows'[j].completed_at # NoTime]_vars

(* ----------------------------- event claims --------------------------- *)
\* the event the handler of this step was called with names no job: it
\* carries no prompt id, or no row has its prompt id
MissHandled ==
  /\ ev' # ev
  /\ ev'.prompt_id = NoPromptId \/ rows[ev'.prompt_id].status = ABSENT

(* C21: an event of any type that carries no prompt id, or a prompt id no
   row has, changes no row, registers no delivery task and schedules none,
   and its handler returns. *)
C21_MissIsDropped ==
  [][MissHandled
       => /\ rows' = rows
          /\ timers' = timers
          /\ hpc' = "idle" /\ hsnap' = hsnap
          /\ delivered' = delivered]_vars

\* an executed event for a prompt id without a row was handled while the
\* job followed is running
C21_Witness ==
  /\ ev.type = "executed" /\ ev.prompt_id = 2
  /\ rows[2].status = ABSENT
  /\ rows[1].status = RUNNING
  /\ hpc = "idle"

(* C22: a progress event changes the progress and its maximum and nothing
   else, and only of a running job: for a job pending, completed, failed or
   cancelled it leaves the row as it is. *)
C22_ProgressOnlyRunning ==
  [][(ev' # ev /\ ev'.type = "progress" /\ ev'.prompt_id # NoPromptId)
       => LET j == ev'.prompt_id
          IN IF rows[j].status = RUNNING
             THEN rows' = [rows EXCEPT ![j] =
                             [@ EXCEPT !.progress = rows'[j].progress,
                                       !.progress_max = rows'[j].progress_max]]
             ELSE rows' = rows]_vars

\* a step in which _schedule_delivery replaces the delivery task registered
\* for job j by a new one
Superseded(j) ==
  /\ timers[j].pc # "none"
  /\ timers'[j].pc = "sleeping"
  /\ hpc = "scheduling" /\ hpc' = "idle" /\ hjob = j

(* C23: the registry of delivery tasks. The task registered for a prompt id
   is the one scheduled last, holding the Job of the last executed event
   applied; a task replaced by a newer one has not called deliver_job and
   never does; and when a task's deliver_job has returned no task is
   registered for the prompt id. *)
C23_TimerRegistry ==
  /\ [](\A j \in Jobs :
          (timers[j].pc = "sleeping" /\ ~(hpc = "scheduling" /\ hjob = j))
            => timers[j].job.output_images = burst[j].n)
  /\ [][\A j \in Jobs : Superseded(j) => timers[j].pc = "sleeping"]_vars
  /\ [][\A j \in Jobs :
          (timers[j].pc = "delivering" /\ timers'[j].pc # "delivering")
            => timers'[j] = NoTimer]_vars

(* C24: a connect() called after disconnect() has returned, and not failed
   by the backend, brings the client back: when such a call returns, from
   the call itself or from ws_connect, the client is Connected with its
   listener task. (After disconnect() has returned the state lock is free,
   so the call runs in one step to its return or to the call of ws_connect.) *)
C24_ConnectAfterDisconnect ==
  [][(/\ pc["disconnect"] = "returned"
      /\ calls' = calls + 1 \/ pc["caller"] = "ws_connect"
      /\ pc'["caller"] = "returned")
       => /\ Connected'
          /\ TaskAlive(pc'["listener"])]_vars

(* C30: the connect() of the caller (Bot.setup_hook, on the client as
   constructed) whose ws_connect fails raises to the caller and leaves the
   client disconnected: the step in which the exception
   reaches the caller creates no listener task and no reconnect task and
   leaves the attempt counter and the stay-connected flag as they were, and
   as long as connect() is not called again there is neither task. *)
C30_FailedConnectRaises ==
  /\ [][(pc["caller"] \in {"ws_connect", "fail_close_session"} /\ pc'["caller"] # pc["caller"]
          /\ ws' # "open")
         => /\ pc'["caller"] \in {"fail_close_session", "raised"}
            /\ pc'["listener"] = pc["listener"]
            /\ pc'["reconnect"] = pc["reconnect"]
            /\ reconnect_attempts' = reconnect_attempts
            /\ should_reconnect' = should_reconnect
            /\ pc'["caller"] = "raised" => ClientState' = "disconnected"]_vars
  /\ [](pc["caller"] = "raised" => /\ ~TaskAlive(pc["listener"])
                                   /\ ~TaskAlive(pc["reconnect"])
                                   /\ reconnect_attempts = 0
                                   /\ ws # "open")

\* the caller's connect() has raised, its session closed, nobody has called disconnect()
C30_Witness ==
  /\ pc["caller"] = "raised"
  /\ session = "closed"
  /\ pc["disconnect"] = "idle"
  /\ should_reconnect

(* C28: over the consecutive failed attempts of an outage the delay before
   the jitter never decreases and never exceeds the cap of 60 s, and the
   delay slept, jitter included, never exceeds 66 s, however many attempts
   have failed. *)
C28_BackoffCapped ==
  /\ [][(reconnect_attempts' = reconnect_attempts + 1 /\ pc'["reconnect"] = "sleep")
         => /\ nominal_delay(reconnect_attempts') >= nominal_delay(reconnect_attempts)
            /\ nominal_delay(reconnect_attempts') <= MAX_BACKOFF * 1000
            /\ 100 * backoff' >= (100 - JITTER_PERCENT) * nominal_delay(reconnect_attempts')
            /\ 100 * backoff' <= (100 + JITTER_PERCENT) * nominal_delay(reconnect_attempts')]_vars
  /\ [](backoff * 100 <= (100 + JITTER_PERCENT) * MAX_BACKOFF * 1000)

\* the backoff of the 1000th failed attempt in a row is slept
C28_Witness ==
  /\ pc["reconnect"] = "sleep"
  /\ reconnect_attempts = 1000
  /\ backoff > MAX_BACKOFF * 1000

(* C25: disconnect() always returns in the end, whatever the client is
   doing when it is called: a connect() in flight holding the state lock, the
   reconnect task asleep in its backoff, a handler in the middle of an event. *)
C25_DisconnectReturns ==
  (pc["disconnect"] \notin {"idle", "returned"}) ~> (pc["disconnect"] = "returned")

\* disconnect() awaits the listener task, which has a handler under way
C25_Witness ==
  /\ pc["disconnect"] = "await_listen"
  /\ pc["listener"] = "running"
  /\ hbusy

(* C29: the listener handles its messages strictly one at a time: a message
   is read only when no handler is under way and the for loop over the
   handlers of the message before it is over; a handler is started only when
   none is under way, for the message read last, after the handlers before it
   in the list have returned or raised. *)
C29_OneMessageAtATime ==
  /\ [][lcount' = lcount + 1 => ~hbusy /\ LoopIdle]_vars
  /\ [][(hbusy' /\ ~hbusy) => /\ lcount' = lcount
                              /\ invoked = SubSeq(callbacks[lmsg], 1, lidx - 1)]_vars
  /\ [](hbusy => ~LoopIdle)

\* the second handler of the second message is under way, after a first
\* message that had two handlers
C29_Witness ==
  /\ lcount = 2
  /\ hbusy
  /\ lidx = 2
  /\ Len(callbacks[lmsg]) >= 2

(* C26: the jobs of the user pending or running that were created within a
   scope are at most the ceiling of the scope plus the number of create_job
   calls of the user that have raced (been between their queue limit check
   and their insert while another call was); in particular at most the
   ceiling when no two calls have overlapped. *)
ActiveInScope(server) ==
  Cardinality({i \in Jobs : rows[i].status \in ActiveStatuses /\ cscope[i] = server})

C26_CeilingPlusRaces ==
  \A server \in Servers : ActiveInScope(server) <= max_queue(server) + race.n

(* C27: a row has output images only while its status is completed and an
   error message only while its status is failed, whatever events arrive
   and whatever cancel_job calls are made. *)
C27_ArtifactsMatchStatus ==
  \A j \in Jobs :
    /\ rows[j].output_images # NoImages => rows[j].status = COMPLETED
    /\ rows[j].error_message # NoError => rows[j].status = FAILED

(* ------------------------- claims of the gaps -------------------------- *)
(* C31: once queue_prompt has returned the prompt id of a create_job call,
   every event for that prompt id that a handler is called with finds the
   row of the job: it is not dropped as an event that names no job, and an
   execution_start event leaves the job running, also while create_job is
   between the return of queue_prompt and the insert of the row. *)
C31_NoEventLostInGap ==
  [][(ev' # ev /\ ev'.prompt_id # NoPromptId /\ Submitted(ev'.prompt_id))
       => /\ ~MissHandled
          /\ ev'.type = "execution_start" => rows'[ev'.prompt_id].status = RUNNING]_vars

(* C32: cancel_job is atomic with respect to the event handlers: when the job
   has been completed or failed by an event while cancel_job was suspended
   after its read of the status, the last step of cancel_job leaves the row
   as it is and does not return True. *)
C32_CancelAtomic ==
  [][\A j \in Jobs :
       (kpc[j] # "idle" /\ kpc'[j] = "idle" /\ rows[j].status \in {COMPLETED, FAILED})
         => /\ rows'[j] = rows[j]
            /\ klog'[j].result # "true"]_vars

(* C33: whenever deliver_job is called for a job, the status of its row at
   that moment is completed. *)
C33_DeliversOnlyCompleted ==
  \A j \in Jobs : delivered[j].n >= 1 => delivered[j].status = COMPLETED

(* C35: over the lifetime of a job deliver_job is called at most once,
   whatever the number and the spacing of its executed events. *)
C35_DeliveredAtMostOnce ==
  \A j \in Jobs : delivered[j].n <= 1

(* C36: a delivery task that has called deliver_job runs until deliver_job
   returns: no later _schedule_delivery for the same prompt id cancels the
   task while it is delivering. *)
C36_StartedDeliveryCompletes ==
  [][\A j \in Jobs : timers[j].pc = "delivering" => ~Superseded(j)]_vars

\* the handlers of the message under way whose call is over, and the one awaited
Dispatched == SubSeq(callbacks[lmsg], 1, lidx - 1)

(* C37: the handlers registered survive reconnection. No step of the client
   (a drop, _handle_disconnect, the reconnect loop, connect()) changes
   self._callbacks: the registry changes only by add_listener appending one
   handler; and the handlers of a message read on any connection, the first
   or a re-established one, are called in the order of their registration,
   each once. *)
C37_ListenersSurviveReconnect ==
  /\ [][(wsVars' # wsVars \/ cycles' # cycles) => callbacks' = callbacks]_vars
  /\ [][\A T \in EventTypes :
          \/ callbacks'[T] = callbacks[T]
          \/ /\ callbacks'[T] = Append(callbacks[T], Registered + 1)
             /\ \A U \in EventTypes \ {T} : callbacks'[U] = callbacks[U]]_vars
  /\ [](~LoopIdle => invoked = Dispatched)

C37_Witness ==
  /\ cycles = MaxCycles
  /\ pc["listener"] = "running"
  /\ lkind = "event"
  /\ ~LoopIdle /\ ~hbusy
  /\ lidx > Len(callbacks[lmsg])
  /\ Len(callbacks[lmsg]) >= 2
  /\ invoked = callbacks[lmsg]

(* C34: a drop of the channel strands no job: every job whose terminal event
   (executed with images, execution_error) the backend has emitted reaches a
   terminal status in the end, also when no connection was open at the
   moment of the event and one was made afterwards. *)
C34_NoJobStranded ==
  \A j \in Tracked : (sent[j] # "no") ~> (rows[j].status \in TerminalStatuses)

====
